---- MODULE Spec2Model ----
(***************************************************************************)
(* A model of cupyx/scipy/signal/_ltisys.py: the lti / dlti class family   *)
(* (TransferFunction, ZerosPolesGain, StateSpace), its constructors,       *)
(* conversions and StateSpace algebra, and the discrete simulation         *)
(* routines dlsim, dimpulse, dstep and dfreqresp.                          *)
(*                                                                         *)
(* Numbers are exact rationals <<n, d>> (d > 0, lowest terms); arrays are  *)
(* sequences (1-D) or sequences of rows (2-D).  Python objects live in     *)
(* `heap` (object identity = index); `res` records the last call made,     *)
(* its arguments and what it returned or raised.                           *)
(***************************************************************************)
EXTENDS Integers, Sequences, FiniteSets, TLC

VARIABLES heap, res, nset

vars == <<heap, res, nset>>

(***************************************************************************)
(* Exact arithmetic standing for the array library's float arithmetic.     *)
(***************************************************************************)
\* F(x) and F(x, y) with the arguments computed once, before F uses them
\* (an argument that F only indexes is otherwise computed at each use)
Bind(F(_), x) == CHOOSE r \in {F(v) : v \in {x}} : TRUE

Bind2(F(_, _), x, y) == CHOOSE r \in {F(v, w) : v \in {x}, w \in {y}} : TRUE

Abs(a) == IF a < 0 THEN -a ELSE a

RECURSIVE Gcd(_, _)
GcdStep(b, r) == Gcd(b, r)

Gcd(a, b) == IF b = 0 THEN a ELSE Bind2(GcdStep, b, a % b)

\* n/d in lowest terms, the denominator positive
QOf(n, d) ==
    LET g == Gcd(Abs(n), Abs(d))
        s == IF d < 0 THEN -1 ELSE 1
    IN  <<(s * n) \div g, (s * d) \div g>>

Q(n, d) == Bind2(QOf, n, d)

RI(n) == <<n, 1>>

RZ == RI(0)

R1 == RI(1)

RAddOf(a, b) == Q(a[1] * b[2] + b[1] * a[2], a[2] * b[2])

RAdd(a, b) == Bind2(RAddOf, a, b)

RNeg(a) == Bind(LAMBDA x : <<-x[1], x[2]>>, a)

RSub(a, b) == RAdd(a, RNeg(b))

RMulOf(a, b) == Q(a[1] * b[1], a[2] * b[2])

RMul(a, b) == Bind2(RMulOf, a, b)

RDivOf(a, b) == Q(a[1] * b[2], a[2] * b[1])

RDiv(a, b) == Bind2(RDivOf, a, b)

RLt(a, b) == a[1] * b[2] < b[1] * a[2]

RLe(a, b) == a[1] * b[2] <= b[1] * a[2]

RFloor(a) == a[1] \div a[2]

RECURSIVE RSum(_)
RSumOf(s) == IF s = <<>> THEN RZ ELSE RAdd(Head(s), RSum(Tail(s)))

RSum(s) == Bind(RSumOf, s)

(* 1-D and 2-D array helpers: rows(M) = Len(M), cols(M) = Len(M[1]) *)
NRows(M) == Len(M)

NCols(M) == IF M = <<>> THEN 0 ELSE Len(M[1])

Dot(v, w) == Bind2(LAMBDA a, b : RSum([k \in 1..Len(a) |-> RMul(a[k], b[k])]), v, w)

MatVec(M, v) == Bind2(LAMBDA X, a : [i \in 1..NRows(X) |-> Dot(X[i], a)], M, v)

Column(M, j) == Bind2(LAMBDA X, c : [i \in 1..NRows(X) |-> X[i][c]], M, j)

MatMul(X, Y) ==
    Bind2(LAMBDA P, R : [i \in 1..NRows(P) |-> [j \in 1..NCols(R) |-> Dot(P[i], Column(R, j))]], X, Y)

VecAdd(v, w) == Bind2(LAMBDA a, b : [k \in 1..Len(a) |-> RAdd(a[k], b[k])], v, w)

MatAdd(X, Y) == Bind2(LAMBDA P, R : [i \in 1..NRows(P) |-> VecAdd(P[i], R[i])], X, Y)

MatNeg(X) == Bind(LAMBDA P : [i \in 1..NRows(P) |-> [j \in 1..NCols(P) |-> RNeg(P[i][j])]], X)

MatScale(X, k) ==
    Bind2(LAMBDA P, c : [i \in 1..NRows(P) |-> [j \in 1..NCols(P) |-> RMul(P[i][j], c)]], X, k)

Zeros1(n) == [k \in 1..n |-> RZ]

Zeros2(n, m) == [i \in 1..n |-> Zeros1(m)]

hstack(X, Y) == Bind2(LAMBDA P, R : [i \in 1..NRows(P) |-> P[i] \o R[i]], X, Y)

vstack(X, Y) == X \o Y

Shape(M) == <<NRows(M), NCols(M)>>

(***************************************************************************)
(* Python values.  A sample period is None, True or a number; True and 1   *)
(* compare equal in Python (True == 1), None only equals None.  A `dt`     *)
(* keyword that is not passed is "absent".                                 *)
(***************************************************************************)
DtAbsent == [k |-> "absent", v |-> RZ]

DtNone == [k |-> "None", v |-> RZ]

DtTrue == [k |-> "True", v |-> R1]

DtNum(q) == [k |-> "num", v |-> q]

(* kwargs.get('dt') is None *)
KwDtIsNone(kw) == kw.k \in {"absent", "None"}

(* Python's a != b on sample periods *)
PyNe(a, b) == IF a.k = "None" \/ b.k = "None" THEN a.k # b.k ELSE a.v # b.v

(***************************************************************************)
(* Classes.  A class is a pair (representation, family); "" means the      *)
(* class does not fix that part: lti = ("", "lti"), TransferFunction =     *)
(* ("TransferFunction", ""), TransferFunctionDiscrete =                    *)
(* ("TransferFunction", "dlti"), LinearTimeInvariant = ("", "").           *)
(***************************************************************************)
Reps == {"TransferFunction", "ZerosPolesGain", "StateSpace"}

Families == {"lti", "dlti"}

Cls(rep, fam) == [rep |-> rep, fam |-> fam]

LinearTimeInvariant == Cls("", "")

lti == Cls("", "lti")

dlti == Cls("", "dlti")

TransferFunction == Cls("TransferFunction", "")

ZerosPolesGain == Cls("ZerosPolesGain", "")

StateSpace == Cls("StateSpace", "")

(* isinstance(o, cls) for an object o of a concrete class *)
IsInstance(o, cls) ==
    /\ cls.rep = "" \/ o.rep = cls.rep
    /\ cls.fam = "" \/ o.fam = cls.fam

(* Positional arguments: arrays, or references to objects of the heap *)
ArrArg(a, nd) == [k |-> "arr", id |-> 0, a |-> a, nd |-> nd]

SysArg(i) == [k |-> "sys", id |-> i, a |-> <<>>, nd |-> 0]

(* object.__new__(cls): an instance with an empty __dict__ (no attribute   *)
(* is set until __init__ runs; inited = FALSE stands for that).  inputs =  *)
(* outputs = 0 stands for None.                                            *)
NewObject(rep, fam) ==
    [rep |-> rep, fam |-> fam, inited |-> FALSE, dt |-> DtNone,
     inputs |-> 0, outputs |-> 0,
     num |-> <<>>, numnd |-> 1, den |-> <<>>,
     zeros |-> <<>>, poles |-> <<>>, gain |-> RZ,
     A |-> <<>>, B |-> <<>>, C |-> <<>>, D |-> <<>>]

(* What a call returns: a status ("ok" or the exception raised) and, when  *)
(* ok, the object returned; same = TRUE when that object is the receiver   *)
(* itself and not a new object.                                            *)
Ok(o) == [status |-> "ok", obj |-> o, same |-> FALSE]

Raise(e) == [status |-> e, obj |-> NewObject("", ""), same |-> FALSE]

(* LinearTimeInvariant.__init__ *)
LinearTimeInvariant_init(o) ==
    [o EXCEPT !.inited = TRUE, !.inputs = 0, !.outputs = 0, !.dt = DtNone]

\* lti.__init__, reached as super().__init__ with the keywords of the call:
\* it accepts no keyword, so any dt keyword is a TypeError.
lti_init(o, kw) ==
    IF kw.k # "absent" THEN Raise("TypeError") ELSE Ok(LinearTimeInvariant_init(o))

(* dlti.dt setter *)
dlti_set_dt(o, dt) == [o EXCEPT !.dt = dt]

\* dlti.__init__: dt = kwargs.pop('dt', True), then self.dt = dt
dlti_init(o, kw) ==
    Ok(dlti_set_dt(LinearTimeInvariant_init(o), IF kw.k = "absent" THEN DtTrue ELSE kw))

\* super().__init__ of a representation class, resolved by the MRO
super_init(o, kw) == IF o.fam = "lti" THEN lti_init(o, kw) ELSE dlti_init(o, kw)

(* LinearTimeInvariant._dt_dict *)
_dt_dict(o) == IF o.dt.k = "None" THEN DtAbsent ELSE o.dt

(***************************************************************************)
(* The coefficient routines the module imports (normalize, abcd_normalize, *)
(* tf2ss, zpk2tf, zpk2ss, ss2tf, ss2zpk, tf2zpk).  Their code is not part  *)
(* of the file modelled here; they are modelled by their contract:         *)
(* polynomials in descending powers, controller canonical form for         *)
(* tf2ss, det(zI - A) for the denominator of ss2tf.                        *)
(***************************************************************************)
VecScale(v, k) == Bind2(LAMBDA a, c : [i \in 1..Len(a) |-> RMul(a[i], c)], v, k)

VecSub(v, w) == Bind2(LAMBDA a, b : [k \in 1..Len(a) |-> RSub(a[k], b[k])], v, w)

RECURSIVE TrimZerosFront(_)
TrimZerosFront(v) ==
    IF v # <<>> /\ Head(v) = RZ THEN TrimZerosFront(Tail(v)) ELSE v

\* the number of leading columns of a 2-D array that are all zero
RECURSIVE LeadingZeroCols(_, _)
LeadingZeroCols(M, j) ==
    IF j <= NCols(M) /\ \A i \in 1..NRows(M) : M[i][j] = RZ
    THEN 1 + LeadingZeroCols(M, j + 1) ELSE 0

DropCols(M, n) == [i \in 1..NRows(M) |-> SubSeq(M[i], n + 1, Len(M[i]))]

\* normalize(num, den) for a 2-D (numnd = 2) or 1-D (numnd = 1) numerator:
\* both are divided by den[0] after den's leading zeros are trimmed, the
\* numerator's all-zero leading columns are dropped (one is kept), and a
\* one-row numerator is returned 1-D.
NormalizeSqueeze(nt, dn) ==
    [status |-> "ok",
     num |-> IF NRows(nt) = 1 THEN nt[1] ELSE nt,
     numnd |-> IF NRows(nt) = 1 THEN 1 ELSE 2,
     den |-> dn]

NormalizeStrip(ns, lz, dn) ==
    NormalizeSqueeze(DropCols(ns, IF lz = NCols(ns) THEN lz - 1 ELSE lz), dn)

NormalizeScale(ns, dn) == NormalizeStrip(ns, LeadingZeroCols(ns, 1), dn)

NormalizeTrimmed(n2, d) ==
    IF d = <<>> \/ NCols(n2) = 0
    THEN [status |-> "ValueError", num |-> <<>>, numnd |-> 1, den |-> <<>>]
    ELSE Bind2(NormalizeScale, MatScale(n2, RDiv(R1, d[1])), VecScale(d, RDiv(R1, d[1])))

normalize(num, numnd, den) ==
    Bind2(NormalizeTrimmed, IF numnd = 1 THEN <<num>> ELSE num, TrimZerosFront(den))

\* abcd_normalize(A, B, C, D): the four matrices, 2-D, when their shapes
\* are consistent (A square, B with A's rows, C with A's columns, D of
\* shape rows(C) x cols(B)); a ValueError otherwise.
abcd_normalize(A, B, C, D) ==
    IF /\ NRows(A) > 0 /\ NRows(C) > 0 /\ NCols(B) > 0
       /\ NRows(A) = NCols(A)
       /\ NRows(B) = NRows(A)
       /\ NCols(C) = NCols(A)
       /\ Shape(D) = <<NRows(C), NCols(B)>>
    THEN [status |-> "ok", A |-> A, B |-> B, C |-> C, D |-> D]
    ELSE [status |-> "ValueError", A |-> <<>>, B |-> <<>>, C |-> <<>>, D |-> <<>>]

\* poly(roots): the monic polynomial with the given roots
PolyTimesLinear(q, x) ==
    [k \in 1..(Len(q) + 1) |->
        RSub(IF k <= Len(q) THEN q[k] ELSE RZ,
             IF k >= 2 THEN RMul(x, q[k - 1]) ELSE RZ)]

RECURSIVE Poly(_)
Poly(r) ==
    IF r = <<>> THEN <<R1>>
    ELSE PolyTimesLinear(Poly(SubSeq(r, 1, Len(r) - 1)), r[Len(r)])

Eye(n) == [i \in 1..n |-> [j \in 1..n |-> IF i = j THEN R1 ELSE RZ]]

Trace(M) == Bind(LAMBDA X : RSum([i \in 1..NRows(X) |-> X[i][i]]), M)

\* det(zI - A), descending powers (Faddeev-LeVerrier)
RECURSIVE CharPolyFrom(_, _, _, _)
CharPolyStep(A, k, Mk, cs) ==
    CharPolyFrom(A, k + 1, Mk, Append(cs, RNeg(RDiv(Trace(MatMul(A, Mk)), RI(k)))))

CharPolyNext(A, k, M, cs) ==
    Bind(LAMBDA Mk : CharPolyStep(A, k, Mk, cs),
         MatAdd(MatMul(A, M), MatScale(Eye(NRows(A)), cs[Len(cs)])))

CharPolyFrom(A, k, M, cs) ==
    IF k > NRows(A) THEN cs ELSE Bind2(LAMBDA Mv, cv : CharPolyNext(A, k, Mv, cv), M, cs)

CharPoly(A) ==
    Bind(LAMBDA X : CharPolyFrom(X, 1, Zeros2(NRows(X), NRows(X)), <<R1>>), A)

Outer(c, r) == Bind2(LAMBDA a, b : [i \in 1..Len(a) |-> VecScale(b, a[i])], c, r)

PadFront(v, n) == Zeros1(n - Len(v)) \o v

\* tf2ss(num, den) for a 1-D numerator: controller canonical form
Tf2ssCanonical(num, den, K) ==
    IF K = 1
    THEN [status |-> "ok", A |-> <<<<RZ>>>>, B |-> <<<<RZ>>>>,
          C |-> <<<<RZ>>>>, D |-> <<<<num[1]>>>>]
    ELSE [status |-> "ok",
          A |-> [i \in 1..(K - 1) |-> [j \in 1..(K - 1) |->
                   IF i = 1 THEN RNeg(den[j + 1])
                   ELSE IF j = i - 1 THEN R1 ELSE RZ]],
          B |-> [i \in 1..(K - 1) |-> <<IF i = 1 THEN R1 ELSE RZ>>],
          C |-> <<[j \in 1..(K - 1) |-> RSub(num[j + 1], RMul(num[1], den[j + 1]))]>>,
          D |-> <<<<num[1]>>>>]

Tf2ssNormalized(nz) ==
    IF nz.status # "ok" \/ nz.numnd # 1 \/ Len(nz.num) > Len(nz.den)
    THEN [status |-> "ValueError", A |-> <<>>, B |-> <<>>, C |-> <<>>, D |-> <<>>]
    ELSE Tf2ssCanonical(PadFront(nz.num, Len(nz.den)), nz.den, Len(nz.den))

tf2ss(num, numnd, den) == Tf2ssNormalized(normalize(num, numnd, den))

\* zpk2tf(z, p, k)
zpk2tf(z, p, k) == [num |-> VecScale(Poly(z), k), numnd |-> 1, den |-> Poly(p)]

\* zpk2ss(z, p, k) = tf2ss(zpk2tf(z, p, k))
zpk2ss(z, p, k) == tf2ss(VecScale(Poly(z), k), 1, Poly(p))

\* ss2tf(A, B, C, D) (input = 0): one numerator row per output,
\* num[k] = det(zI - A + B[:, 0] C[k, :]) + (D[k, 0] - 1) det(zI - A)
Ss2tfRows(A, B, C, D, den) ==
    [num |-> [k \in 1..NRows(C) |->
                VecAdd(CharPoly(MatAdd(A, MatNeg(Outer(Column(B, 1), C[k])))),
                       VecScale(den, RSub(D[k][1], R1)))],
     numnd |-> 2, den |-> den]

ss2tf(A, B, C, D) == Bind(LAMBDA den : Ss2tfRows(A, B, C, D, den), CharPoly(A))

\* p(x), Horner
RECURSIVE PolyVal(_, _)
PolyVal(p, x) ==
    IF p = <<>> THEN RZ
    ELSE RAdd(RMul(PolyVal(SubSeq(p, 1, Len(p) - 1), x), x), p[Len(p)])

\* p / (z - x) by synthetic division (x a root of p)
RECURSIVE Deflate(_, _, _)
Deflate(p, x, acc) ==
    IF Len(p) <= 1 THEN acc
    ELSE Deflate(Tail(p), x,
                 Append(acc, IF acc = <<>> THEN p[1]
                             ELSE RAdd(p[1], RMul(x, acc[Len(acc)]))))

\* The roots the model can represent: small rationals
CandRoots == {Q(n, d) : n \in -2..2, d \in 1..2}

\* roots(p), ascending, when p splits over CandRoots (ok = FALSE otherwise)
MinOf(zs) == CHOOSE y \in zs : \A w \in zs : RLe(y, w)

RootsCons(x, rest) == [ok |-> rest.ok, r |-> <<x>> \o rest.r]

RECURSIVE Roots(_)
RootsAmong(p, zs) ==
    IF zs = {} THEN [ok |-> FALSE, r |-> <<>>]
    ELSE RootsCons(MinOf(zs), Roots(Deflate(p, MinOf(zs), <<>>)))

Roots(p) ==
    IF Len(p) <= 1 THEN [ok |-> TRUE, r |-> <<>>]
    ELSE RootsAmong(p, {x \in CandRoots : PolyVal(p, x) = RZ})

\* tf2zpk(num, den) for a 1-D numerator: k = num[0], zeros = roots(num),
\* poles = roots(den)
Tf2zpkRoots(k, z, p) ==
    [status |-> "ok", ok |-> z.ok /\ p.ok, zeros |-> z.r, poles |-> p.r, gain |-> k]

Tf2zpkNormalized(nz) ==
    IF nz.status # "ok"
    THEN [status |-> "ValueError", ok |-> TRUE, zeros |-> <<>>, poles |-> <<>>, gain |-> RZ]
    ELSE IF nz.numnd # 1 \/ nz.num[1] = RZ
    THEN [status |-> "ok", ok |-> FALSE, zeros |-> <<>>, poles |-> <<>>, gain |-> RZ]
    ELSE Tf2zpkRoots(nz.num[1], Roots(VecScale(nz.num, RDiv(R1, nz.num[1]))), Roots(nz.den))

tf2zpk(num, numnd, den) == Tf2zpkNormalized(normalize(num, numnd, den))

\* ss2zpk(A, B, C, D) = tf2zpk(ss2tf(A, B, C, D))
Ss2zpkTf(tf) == tf2zpk(tf.num, tf.numnd, tf.den)

ss2zpk(A, B, C, D) == Ss2zpkTf(ss2tf(A, B, C, D))

(***************************************************************************)
(* Property setters                                                        *)
(***************************************************************************)
\* TransferFunction.num setter: outputs, inputs = num.shape when num is 2-D
set_num(o, num, numnd) ==
    [o EXCEPT !.num = num, !.numnd = numnd,
              !.outputs = IF numnd > 1 THEN NRows(num) ELSE 1,
              !.inputs = IF numnd > 1 THEN NCols(num) ELSE 1]

\* TransferFunction.den setter
set_den(o, den) == [o EXCEPT !.den = den]

\* ZerosPolesGain.zeros setter (zeros 1-D)
set_zeros(o, zeros) == [o EXCEPT !.zeros = zeros, !.outputs = 1, !.inputs = 1]

\* ZerosPolesGain.poles setter
set_poles(o, poles) == [o EXCEPT !.poles = poles]

\* ZerosPolesGain.gain setter
set_gain(o, gain) == [o EXCEPT !.gain = gain]

\* StateSpace.A setter
set_A(o, A) == [o EXCEPT !.A = A]

\* StateSpace.B setter: inputs = B.shape[-1]
set_B(o, B) == [o EXCEPT !.B = B, !.inputs = NCols(B)]

\* StateSpace.C setter: outputs = C.shape[0]
set_C(o, C) == [o EXCEPT !.C = C, !.outputs = NRows(C)]

\* StateSpace.D setter
set_D(o, D) == [o EXCEPT !.D = D]

(***************************************************************************)
(* __init__ of the three representations                                   *)
(***************************************************************************)
AllArrays(system) == \A i \in 1..Len(system) : system[i].k = "arr"

\* self.num, self.den = normalize(num, den)
TransferFunction_assign(s, nz) ==
    IF nz.status # "ok" THEN Raise(nz.status)
    ELSE Ok(set_den(set_num(s.obj, nz.num, nz.numnd), nz.den))

\* TransferFunction.__init__ after super().__init__ returned s
TransferFunction_rest(s, system) ==
    IF s.status # "ok" THEN s
    ELSE IF Len(system) # 2 \/ ~AllArrays(system) THEN Raise("TypeError")
    ELSE Bind2(TransferFunction_assign, s, normalize(system[1].a, system[1].nd, system[2].a))

\* TransferFunction.__init__
TransferFunction_init(o, system, kw) ==
    IF Len(system) = 0 THEN Raise("IndexError")
    ELSE IF system[1].k = "sys" THEN Ok(o)
    ELSE TransferFunction_rest(super_init(o, kw), system)

\* ZerosPolesGain.__init__ after super().__init__ returned s
ZerosPolesGain_rest(s, system) ==
    IF s.status # "ok" THEN s
    ELSE IF Len(system) # 3 THEN Raise("ValueError")
    ELSE IF ~AllArrays(system) THEN Raise("TypeError")
    ELSE Ok(set_gain(set_poles(set_zeros(s.obj, system[1].a), system[2].a), system[3].a))

\* ZerosPolesGain.__init__
ZerosPolesGain_init(o, system, kw) ==
    IF Len(system) = 0 THEN Raise("IndexError")
    ELSE IF system[1].k = "sys" THEN Ok(o)
    ELSE ZerosPolesGain_rest(super_init(o, kw), system)

\* self.A, self.B, self.C, self.D = abcd_normalize(A, B, C, D)
StateSpace_assign(s, n) ==
    IF n.status # "ok" THEN Raise(n.status)
    ELSE Ok(set_D(set_C(set_B(set_A(s.obj, n.A), n.B), n.C), n.D))

\* StateSpace.__init__ after super().__init__ returned s (called with
\* four arrays, or with too many arguments)
StateSpace_rest(s, system) ==
    IF s.status # "ok" THEN s
    ELSE IF Len(system) # 4 \/ ~AllArrays(system) THEN Raise("TypeError")
    ELSE StateSpace_assign(s, abcd_normalize(system[1].a, system[2].a, system[3].a, system[4].a))

\* StateSpace.__init__ without the early return on a system argument
StateSpace_init_reinit(o, system, kw) ==
    IF Len(system) = 0 THEN Raise("IndexError")
    ELSE StateSpace_rest(super_init(o, kw), system)

\* StateSpace.__init__
StateSpace_init(o, system, kw) ==
    IF Len(system) = 0 THEN Raise("IndexError")
    ELSE IF system[1].k = "sys" THEN Ok(o)
    ELSE StateSpace_rest(super_init(o, kw), system)

\* type(obj).__init__, dispatched on the class of obj
Init_(o, system, kw) ==
    CASE o.rep = "TransferFunction" -> TransferFunction_init(o, system, kw)
      [] o.rep = "ZerosPolesGain" -> ZerosPolesGain_init(o, system, kw)
      [] OTHER -> StateSpace_init(o, system, kw)

(***************************************************************************)
(* __new__: the class of the instance created                              *)
(***************************************************************************)
\* ByArity with the arities of TransferFunction and ZerosPolesGain exchanged
ByArity_swapped(N, fam) ==
    CASE N = 3 -> Cls("TransferFunction", fam)
      [] N = 2 -> Cls("ZerosPolesGain", fam)
      [] N = 4 -> Cls("StateSpace", fam)
      [] OTHER -> Cls("", "")

\* lti.__new__ / dlti.__new__ called on lti / dlti itself: by arity
ByArity(N, fam) ==
    CASE N = 2 -> Cls("TransferFunction", fam)
      [] N = 3 -> Cls("ZerosPolesGain", fam)
      [] N = 4 -> Cls("StateSpace", fam)
      [] OTHER -> Cls("", "")

\* ByDt with the two families exchanged
ByDt_inverted(rep, kw) == IF KwDtIsNone(kw) THEN Cls(rep, "dlti") ELSE Cls(rep, "lti")

\* TransferFunction.__new__, ZerosPolesGain.__new__, StateSpace.__new__
\* called on the representation class itself: by the dt keyword
ByDt(rep, kw) == IF KwDtIsNone(kw) THEN Cls(rep, "lti") ELSE Cls(rep, "dlti")

\* cls.__new__ when no conversion is asked for:
\* the concrete class instantiated, or ("", "") when __new__ raises ValueError
NewClass(cls, system, kw) ==
    IF cls.rep = "" THEN ByArity(Len(system), cls.fam)
    ELSE IF cls.fam = "" THEN ByDt(cls.rep, kw)
    ELSE cls

\* __init__ on the instance of the class c that __new__ chose
ConstructAs(c, system, kw) ==
    IF c.rep = "" THEN Raise("ValueError")
    ELSE Init_(NewObject(c.rep, c.fam), system, kw)

\* calling cls without the conversion branch: __new__, then __init__
\* (lti.__new__ takes no keyword)
Construct(cls, system, kw) ==
    IF cls = lti /\ kw.k # "absent" THEN Raise("TypeError")
    ELSE ConstructAs(NewClass(cls, system, kw), system, kw)

(***************************************************************************)
(* Conversions                                                             *)
(***************************************************************************)
Unmodelled == [status |-> "unmodelled", obj |-> NewObject("", ""), same |-> FALSE]

\* TransferFunction(num, den, **self._dt_dict), for num and den computed
\* once
MakeTfOf(tf, kw) ==
    Construct(TransferFunction, <<ArrArg(tf.num, tf.numnd), ArrArg(tf.den, 1)>>, kw)

MakeTf(tf, kw) == Bind2(MakeTfOf, tf, kw)

\* ZerosPolesGain(z, p, k, **self._dt_dict); a result of tf2zpk / ss2zpk
\* whose roots the model cannot represent is left out
MakeZpk(z, kw) ==
    IF z.status # "ok" THEN Raise(z.status)
    ELSE IF ~z.ok THEN Unmodelled
    ELSE Construct(ZerosPolesGain,
                   <<ArrArg(z.zeros, 1), ArrArg(z.poles, 1), ArrArg(z.gain, 0)>>, kw)

\* StateSpace(A, B, C, D, **self._dt_dict)
MakeSs(ss, kw) ==
    IF ss.status # "ok" THEN Raise(ss.status)
    ELSE Construct(StateSpace,
                   <<ArrArg(ss.A, 2), ArrArg(ss.B, 2), ArrArg(ss.C, 2), ArrArg(ss.D, 2)>>, kw)

\* to_tf returning the receiver itself where the code copies it
to_tf_self(o) ==
    CASE o.rep = "TransferFunction" -> [status |-> "ok", obj |-> o, same |-> TRUE]
      [] ~o.inited -> Raise("AttributeError")
      [] o.rep = "ZerosPolesGain" -> MakeTf(zpk2tf(o.zeros, o.poles, o.gain), _dt_dict(o))
      [] OTHER -> MakeTf(ss2tf(o.A, o.B, o.C, o.D), _dt_dict(o))

\* TransferFunction.to_tf (a deep copy), ZerosPolesGain.to_tf, StateSpace.to_tf
to_tf(o) ==
    CASE o.rep = "TransferFunction" -> Ok(o)
      [] ~o.inited -> Raise("AttributeError")
      [] o.rep = "ZerosPolesGain" -> MakeTf(zpk2tf(o.zeros, o.poles, o.gain), _dt_dict(o))
      [] OTHER -> MakeTf(ss2tf(o.A, o.B, o.C, o.D), _dt_dict(o))

\* ZerosPolesGain.to_zpk (a deep copy), TransferFunction.to_zpk, StateSpace.to_zpk
to_zpk(o) ==
    CASE o.rep = "ZerosPolesGain" -> Ok(o)
      [] ~o.inited -> Raise("AttributeError")
      [] o.rep = "TransferFunction" -> MakeZpk(tf2zpk(o.num, o.numnd, o.den), _dt_dict(o))
      [] OTHER -> MakeZpk(ss2zpk(o.A, o.B, o.C, o.D), _dt_dict(o))

\* to_ss returning the receiver itself where the code copies it
to_ss_self(o) ==
    CASE o.rep = "StateSpace" -> [status |-> "ok", obj |-> o, same |-> TRUE]
      [] ~o.inited -> Raise("AttributeError")
      [] o.rep = "TransferFunction" -> MakeSs(tf2ss(o.num, o.numnd, o.den), _dt_dict(o))
      [] OTHER -> MakeSs(zpk2ss(o.zeros, o.poles, o.gain), _dt_dict(o))

\* StateSpace.to_ss (a deep copy), TransferFunction.to_ss, ZerosPolesGain.to_ss
to_ss(o) ==
    CASE o.rep = "StateSpace" -> Ok(o)
      [] ~o.inited -> Raise("AttributeError")
      [] o.rep = "TransferFunction" -> MakeSs(tf2ss(o.num, o.numnd, o.den), _dt_dict(o))
      [] OTHER -> MakeSs(zpk2ss(o.zeros, o.poles, o.gain), _dt_dict(o))

\* to_tf / to_zpk / to_ss by the name of the target representation
to_(rep, o) ==
    CASE rep = "TransferFunction" -> to_tf(o)
      [] rep = "ZerosPolesGain" -> to_zpk(o)
      [] OTHER -> to_ss(o)

\* LinearTimeInvariant._as_tf / _as_zpk / _as_ss: self when already of
\* that representation, the conversion otherwise
_as(rep, o) ==
    IF IsInstance(o, Cls(rep, "")) THEN [status |-> "ok", obj |-> o, same |-> TRUE]
    ELSE to_(rep, o)

\* cont2discrete(system, dt, method, alpha): the module neither imports
\* nor defines the name, so the call raises NameError
cont2discrete(system, dt) == [status |-> "NameError", args |-> <<>>]

\* Rep(*cont2discrete(...)[:-1], dt=dt)
Discretized(r, rep, dt) ==
    IF r.status # "ok" THEN Raise(r.status)
    ELSE Construct(Cls(rep, ""), r.args, dt)

\* o.to_discrete(dt): lti raises NotImplementedError, the three continuous
\* classes discretize, the other classes have no such method
to_discrete(o, dt) ==
    CASE o.fam = "lti" /\ o.rep = "" -> Raise("NotImplementedError")
      [] o.fam = "lti" -> Discretized(cont2discrete(o, dt), o.rep, dt)
      [] OTHER -> Raise("AttributeError")

\* type.__call__ after __new__ returned r: __init__ runs on the object
\* returned when it is an instance of cls
CallInit(cls, r, system, kw) ==
    IF r.status = "ok" /\ IsInstance(r.obj, cls) THEN Init_(r.obj, system, kw) ELSE r

\* Calling cls, the whole call: a representation class given one
\* argument that is a system returns that system's conversion from __new__
Call(cls, system, kw, h) ==
    IF cls.rep # "" /\ Len(system) = 1 /\ system[1].k = "sys"
    THEN CallInit(cls, to_(cls.rep, h[system[1].id]), system, kw)
    ELSE Construct(cls, system, kw)

(***************************************************************************)
(* Discrete simulation: dlsim                                              *)
(***************************************************************************)
\* What a simulation routine returns: the number of values returned
\* (0 when it raises), the time grid, the outputs and the states; for
\* dimpulse / dstep one output array per input; for dfreqresp w and h.
SimRaise(e) ==
    [status |-> e, nret |-> 0, tout |-> <<>>, yout |-> <<>>, xout |-> <<>>,
     youts |-> <<>>, w |-> <<>>, h |-> <<>>]

SimUnmodelled == SimRaise("unmodelled")

\* An optional argument left out (None) or given
NoneArg == [given |-> FALSE, a |-> <<>>]

Given(a) == [given |-> TRUE, a |-> a]

\* a number of samples left out (n = None)
NoSamples == [given |-> FALSE, a |-> 0]

\* The system argument: an object of the heap, or a tuple (*args, dt)
ObjSys(i) == [k |-> "obj", id |-> i, args |-> <<>>, dt |-> DtNone]

TupleSys(args, dt) == [k |-> "tuple", id |-> 0, args |-> args, dt |-> dt]

\* cupy.atleast_1d(u), and a 1-D u made a column
AtLeast2dT(u) == IF u.nd = 1 THEN [i \in 1..Len(u.a) |-> <<u.a[i]>>] ELSE u.a

\* cupy.linspace(0.0, stop, num=num)
linspace(stop, num) ==
    [i \in 1..num |-> IF num = 1 THEN RZ ELSE RDiv(RMul(RI(i - 1), stop), RI(num - 1))]

\* make_interp_spline(t, u, k=1)(tq): the piecewise linear interpolant
\* through (t[j], u[j]), continued linearly outside [t[1], t[Len(t)]]
Segment(t, tq) ==
    IF \E j \in 1..(Len(t) - 1) : RLe(t[j], tq)
    THEN CHOOSE j \in 1..(Len(t) - 1) :
            RLe(t[j], tq) /\ \A l \in 1..(Len(t) - 1) : RLe(t[l], tq) => l <= j
    ELSE 1

InterpRow(t, u, tq, j) ==
    [c \in 1..NCols(u) |->
        RAdd(u[j][c], RMul(RSub(u[j + 1][c], u[j][c]),
                           RDiv(RSub(tq, t[j]), RSub(t[j + 1], t[j]))))]

Interp(t, u, tout) == [i \in 1..Len(tout) |-> InterpRow(t, u, tout[i], Segment(t, tout[i]))]

StrictlyIncreasing(t) == \A j \in 1..(Len(t) - 1) : RLt(t[j], t[j + 1])

\* the initial condition left at zero whatever x0 is
InitialState_zero(x0, n) == Zeros1(n)

\* xout[0, :] = zeros or asarray(x0), broadcast to the n states
InitialState(x0, n) ==
    IF ~x0.given THEN Zeros1(n)
    ELSE IF Len(x0.a) = 1 THEN [i \in 1..n |-> x0.a[1]]
    ELSE x0.a

\* a row as it is stored in the output array: the values themselves
Stored(v) == v \o <<>>

\* one pass of the loop with the input left out of the state update
SimulateStep_noinput(sys, u, acc, i) ==
    [x |-> Append(acc.x, Stored(MatVec(sys.A, acc.x[i]))),
     y |-> Append(acc.y, Stored(VecAdd(MatVec(sys.C, acc.x[i]), MatVec(sys.D, u[i]))))]

\* one pass of the loop: xout[i+1] = A xout[i] + B u[i];
\* yout[i] = C xout[i] + D u[i]   (acc.x holds xout[0..i], acc.y yout[0..i-1])
SimulateStep(sys, u, acc, i) ==
    [x |-> Append(acc.x, Stored(VecAdd(MatVec(sys.A, acc.x[i]), MatVec(sys.B, u[i])))),
     y |-> Append(acc.y, Stored(VecAdd(MatVec(sys.C, acc.x[i]), MatVec(sys.D, u[i]))))]

\* the passes lo..hi in increasing order: the first half of the range,
\* then the second half on what the first half left
RECURSIVE SimulateRange(_, _, _, _, _)
SimulateRange(sys, u, acc, lo, hi) ==
    IF lo > hi THEN acc
    ELSE IF lo = hi THEN SimulateStep(sys, u, acc, lo)
    ELSE Bind(LAMBDA half : SimulateRange(sys, u, half, (lo + hi) \div 2 + 1, hi),
              SimulateRange(sys, u, acc, lo, (lo + hi) \div 2))

\* for i in range(0, out_samples - 1): the passes i..out_samples - 1
SimulateLoop(sys, u, acc, i, out_samples) == SimulateRange(sys, u, acc, i, out_samples - 1)

\* the last point: yout[out_samples-1] = C xout[out_samples-1] + D u[out_samples-1]
LastPoint(sys, u, acc, out_samples) ==
    [x |-> acc.x,
     y |-> Append(acc.y, VecAdd(MatVec(sys.C, acc.x[out_samples]),
                                MatVec(sys.D, u[out_samples])))]

\* return tout, yout, xout when is_ss_input, tout, yout otherwise
DlsimReturn(is_ss, tout, acc) ==
    [status |-> "ok", nret |-> IF is_ss THEN 3 ELSE 2, tout |-> tout,
     yout |-> acc.y, xout |-> IF is_ss THEN acc.x ELSE <<>>,
     youts |-> <<>>, w |-> <<>>, h |-> <<>>]

\* the loop and the last point, on the inputs at the output times
DlsimSimulate(is_ss, sys, u_dt, x0, tout, out_samples) ==
    IF NCols(u_dt) # NCols(sys.B) THEN SimRaise("ValueError")
    ELSE DlsimReturn(is_ss, tout,
            LastPoint(sys, u_dt,
                SimulateLoop(sys, u_dt, [x |-> <<InitialState(x0, NRows(sys.A))>>, y |-> <<>>],
                             1, out_samples),
                out_samples))

\* the output arrays, the initial condition and the interpolation of the
\* inputs (a one-point time vector is outside the model)
DlsimArrays(is_ss, sys, u, t, x0, stoptime, out_samples) ==
    IF out_samples < 0 THEN SimRaise("ValueError")
    ELSE IF out_samples = 0 THEN SimRaise("IndexError")
    ELSE IF x0.given /\ Len(x0.a) \notin {1, NRows(sys.A)} THEN SimRaise("ValueError")
    ELSE IF ~t.given
    THEN DlsimSimulate(is_ss, sys, u, x0, linspace(stoptime, out_samples), out_samples)
    ELSE IF Len(t.a) = 1 THEN SimUnmodelled
    ELSE IF Len(t.a) # Len(u) \/ ~StrictlyIncreasing(t.a) THEN SimRaise("ValueError")
    ELSE DlsimSimulate(is_ss, sys, Interp(t.a, u, linspace(stoptime, out_samples)), x0,
                       linspace(stoptime, out_samples), out_samples)

\* as many output samples as input samples also when t is given
DlsimSamples_len(is_ss, sys, u, t, x0) ==
    IF ~t.given
    THEN IF sys.dt.k = "None" THEN SimRaise("TypeError")
         ELSE DlsimArrays(is_ss, sys, u, t, x0, RMul(RI(Len(u) - 1), sys.dt.v), Len(u))
    ELSE IF t.a = <<>> THEN SimRaise("IndexError")
    ELSE IF sys.dt.k = "None" THEN SimRaise("TypeError")
    ELSE IF sys.dt.v = RZ THEN SimRaise("ArithmeticError")
    ELSE DlsimArrays(is_ss, sys, u, t, x0, t.a[Len(t.a)], Len(u))

\* out_samples and stoptime; dt None cannot be multiplied or divided by
\* (TypeError), dt 0 cannot be divided by (ArithmeticError)
DlsimSamples(is_ss, sys, u, t, x0) ==
    IF ~t.given
    THEN IF sys.dt.k = "None" THEN SimRaise("TypeError")
         ELSE DlsimArrays(is_ss, sys, u, t, x0, RMul(RI(Len(u) - 1), sys.dt.v), Len(u))
    ELSE IF t.a = <<>> THEN SimRaise("IndexError")
    ELSE IF sys.dt.k = "None" THEN SimRaise("TypeError")
    ELSE IF sys.dt.v = RZ THEN SimRaise("ArithmeticError")
    ELSE DlsimArrays(is_ss, sys, u, t, x0, t.a[Len(t.a)],
                     RFloor(RDiv(t.a[Len(t.a)], sys.dt.v)) + 1)

\* system = system._as_ss()
DlsimAsSs(is_ss, r, u, t, x0) ==
    IF r.status # "ok" THEN SimRaise(r.status)
    ELSE DlsimSamples(is_ss, r.obj, AtLeast2dT(u), t, x0)

\* is_ss_input taken after the conversion to StateSpace, where it always holds
DlsimSystem_late(r, u, t, x0) ==
    IF r.status # "ok" THEN SimRaise(r.status)
    ELSE DlsimAsSs(TRUE, _as("StateSpace", r.obj), u, t, x0)

\* is_ss_input = isinstance(system, StateSpace)
DlsimSystem(r, u, t, x0) ==
    IF r.status # "ok" THEN SimRaise(r.status)
    ELSE DlsimAsSs(IsInstance(r.obj, StateSpace), _as("StateSpace", r.obj), u, t, x0)

\* the system argument when it is no lti instance: a dlti object as it
\* is, a tuple through dlti(*system[:-1], dt=system[-1])
AsDlti(sa, h) ==
    IF sa.k = "obj" THEN Ok(h[sa.id]) ELSE Construct(dlti, sa.args, sa.dt)

\* dlsim without the guard against continuous systems
dlsim_unguarded(sa, h, u, t, x0) == DlsimSystem(AsDlti(sa, h), u, t, x0)

\* dlsim(system, u, t, x0)
dlsim(sa, h, u, t, x0) ==
    IF sa.k = "obj" /\ IsInstance(h[sa.id], lti) THEN SimRaise("AttributeError")
    ELSE DlsimSystem(AsDlti(sa, h), u, t, x0)

(***************************************************************************)
(* dimpulse and dstep                                                      *)
(***************************************************************************)
\* the impulse put on the first channel whatever i is
ImpulseInput_first(len, m, i) ==
    [r \in 1..len |-> [c \in 1..m |-> IF r = 1 /\ c = 1 THEN R1 ELSE RZ]]

\* u = zeros((len(t), inputs)); u[0, i] = 1.0
ImpulseInput(len, m, i) ==
    [r \in 1..len |-> [c \in 1..m |-> IF r = 1 /\ c = i THEN R1 ELSE RZ]]

\* the step switched on one sample late
StepInput_late(len, m, i) ==
    [r \in 1..len |-> [c \in 1..m |-> IF r > 1 /\ c = i THEN R1 ELSE RZ]]

\* u = zeros((len(t), inputs)); u[:, i] = ones
StepInput(len, m, i) ==
    [r \in 1..len |-> [c \in 1..m |-> IF c = i THEN R1 ELSE RZ]]

\* the system as dimpulse / dstep take it: a dlti object through _as_ss,
\* an lti object refused, a tuple through dlti(...)._as_ss()
ResponseAsSs(r) == IF r.status # "ok" THEN r ELSE _as("StateSpace", r.obj)

ResponseSystem(sa, h) ==
    IF sa.k = "obj" /\ IsInstance(h[sa.id], dlti) THEN _as("StateSpace", h[sa.id])
    ELSE IF sa.k = "obj" THEN Raise("AttributeError")
    ELSE ResponseAsSs(Construct(dlti, sa.args, sa.dt))

\* t = linspace(0, n * dt, n, endpoint=False) when t is None
ResponseTimes(sys, t, n) ==
    IF t.given THEN t.a ELSE [i \in 1..n |-> RMul(RI(i - 1), sys.dt.v)]

\* one pass of the loop over the inputs: acc after the call one_output
RECURSIVE ResponseLoop(_, _, _, _, _, _)
ResponseNext(sys, x0, t, i, acc, step, one_output) ==
    IF one_output.status # "ok" THEN SimRaise(one_output.status)
    ELSE ResponseLoop(sys, x0, t, i + 1,
                      [acc EXCEPT !.status = "ok", !.nret = 2,
                                  !.tout = one_output.tout,
                                  !.youts = Append(acc.youts, one_output.yout)],
                      step)

\* for i in range(0, system.inputs): one_output = dlsim(system, u, t=t, x0=x0)
ResponseLoop(sys, x0, t, i, acc, step) ==
    IF i > sys.inputs THEN acc
    ELSE IF t = <<>> /\ ~step THEN SimRaise("IndexError")
    ELSE ResponseNext(sys, x0, t, i, acc, step,
            dlsim(ObjSys(1), <<sys>>,
                  ArrArg(IF step THEN StepInput(Len(t), sys.inputs, i)
                         ELSE ImpulseInput(Len(t), sys.inputs, i), 2),
                  Given(t), x0))

\* if n is None: n = 100
DefaultSamples == 100

SamplesOf(n) == IF n.given THEN n.a ELSE DefaultSamples

\* dimpulse / dstep once the system is a discrete StateSpace
ResponseOf(r, x0, t, n, step) ==
    IF r.status # "ok" THEN SimRaise(r.status)
    ELSE IF ~t.given /\ r.obj.dt.k = "None" THEN SimRaise("TypeError")
    ELSE ResponseLoop(r.obj, x0, ResponseTimes(r.obj, t, SamplesOf(n)), 1,
                      SimRaise("UnboundLocalError"), step)

\* dimpulse(system, x0, t, n)
dimpulse(sa, h, x0, t, n) == ResponseOf(ResponseSystem(sa, h), x0, t, n, FALSE)

\* dstep(system, x0, t, n)
dstep(sa, h, x0, t, n) == ResponseOf(ResponseSystem(sa, h), x0, t, n, TRUE)

(***************************************************************************)
(* dfreqresp.  Frequencies are counted in quarter turns: w = q stands for  *)
(* the angle q * pi/2, where exp(jw) is one of 1, j, -1, -j.  Complex      *)
(* numbers have rational parts; fin = FALSE is the result of a division    *)
(* by zero (inf or nan).                                                   *)
(***************************************************************************)
CNum(re, im) == [re |-> re, im |-> im, fin |-> TRUE]

CNaN == [re |-> RZ, im |-> RZ, fin |-> FALSE]

CReal(x) == CNum(x, RZ)

CAdd(a, b) == [re |-> RAdd(a.re, b.re), im |-> RAdd(a.im, b.im), fin |-> a.fin /\ b.fin]

CSub(a, b) == [re |-> RSub(a.re, b.re), im |-> RSub(a.im, b.im), fin |-> a.fin /\ b.fin]

CMul(a, b) ==
    [re |-> RSub(RMul(a.re, b.re), RMul(a.im, b.im)),
     im |-> RAdd(RMul(a.re, b.im), RMul(a.im, b.re)),
     fin |-> a.fin /\ b.fin]

CNorm2(b) == RAdd(RMul(b.re, b.re), RMul(b.im, b.im))

CDiv(a, b) ==
    IF ~a.fin \/ ~b.fin \/ CNorm2(b) = RZ THEN CNaN
    ELSE CNum(RDiv(RAdd(RMul(a.re, b.re), RMul(a.im, b.im)), CNorm2(b)),
              RDiv(RSub(RMul(a.im, b.re), RMul(a.re, b.im)), CNorm2(b)))

\* exp(j * q * pi/2) for an integer q
CUnit(q) ==
    CASE q % 4 = 0 -> CNum(R1, RZ)
      [] q % 4 = 1 -> CNum(RZ, R1)
      [] q % 4 = 2 -> CNum(RNeg(R1), RZ)
      [] OTHER -> CNum(RZ, RNeg(R1))

\* c[0] + c[1] zi + c[2] zi^2 + ...
RECURSIVE CPolyAsc(_, _)
CPolyAsc(c, zi) ==
    IF c = <<>> THEN CReal(RZ)
    ELSE CAdd(CReal(Head(c)), CMul(zi, CPolyAsc(Tail(c), zi)))

\* (z - r[1]) (z - r[2]) ...
RECURSIVE CProd(_, _)
CProd(r, z) ==
    IF r = <<>> THEN CReal(R1)
    ELSE CMul(CSub(z, CReal(Head(r))), CProd(Tail(r), z))

\* freqz(b, a, worN=w): H at exp(jw), b and a in powers of z^-1
freqz(b, a, w) ==
    [i \in 1..Len(w) |-> CDiv(CPolyAsc(b, CUnit(-RFloor(w[i]))), CPolyAsc(a, CUnit(-RFloor(w[i]))))]

\* freqz_zpk(z, p, k, worN=w)
freqz_zpk(z, p, k, w) ==
    [i \in 1..Len(w) |->
        CDiv(CMul(CReal(k), CProd(z, CUnit(RFloor(w[i])))), CProd(p, CUnit(RFloor(w[i]))))]

\* the frequencies freqz picks for an integer worN = n: n points from 0
\* up to, and without, pi (whole = False) or 2 pi (whole = True)
FreqGrid(n, whole) == [i \in 1..n |-> Q((IF whole THEN 4 ELSE 2) * (i - 1), n)]

\* the zeros put behind the shorter sequence
_z_to_zinv_right(num, den) ==
    [num |-> IF Len(num) < Len(den) THEN num \o Zeros1(Len(den) - Len(num)) ELSE num,
     den |-> IF Len(num) > Len(den) THEN den \o Zeros1(Len(num) - Len(den)) ELSE den]

\* TransferFunction._z_to_zinv
_z_to_zinv(num, den) ==
    [num |-> IF Len(num) < Len(den) THEN Zeros1(Len(den) - Len(num)) \o num ELSE num,
     den |-> IF Len(num) > Len(den) THEN Zeros1(Len(num) - Len(den)) \o den ELSE den]

\* TransferFunction._zinv_to_z
_zinv_to_z(num, den) ==
    [num |-> IF Len(num) < Len(den) THEN num \o Zeros1(Len(den) - Len(num)) ELSE num,
     den |-> IF Len(num) > Len(den) THEN den \o Zeros1(Len(num) - Len(den)) ELSE den]

FreqReturn(w, h) ==
    [status |-> "ok", nret |-> 2, tout |-> <<>>, yout |-> <<>>, xout |-> <<>>,
     youts |-> <<>>, w |-> w, h |-> h]

FreqTf(zi, w) == FreqReturn(w, freqz(zi.num, zi.den, w))

\* the response of a SISO TransferFunction or ZerosPolesGain at the
\* frequencies w (frequencies off the quarter turns are outside the model)
FreqEval(sys, w) ==
    IF \E i \in 1..Len(w) : w[i][2] # 1 THEN SimUnmodelled
    ELSE IF sys.rep = "TransferFunction" THEN FreqTf(_z_to_zinv(sys.num, sys.den), w)
    ELSE FreqReturn(w, freqz_zpk(sys.zeros, sys.poles, sys.gain, w))

\* the SISO check, and worN = w or n
FreqSiso(r, w, n, whole) ==
    IF r.status # "ok" THEN SimRaise(r.status)
    ELSE IF r.obj.inputs # 1 \/ r.obj.outputs # 1 THEN SimRaise("ValueError")
    ELSE FreqEval(r.obj, IF w.given THEN w.a ELSE FreqGrid(n, whole))

\* if not isinstance(system, (TransferFunction, ZerosPolesGain)):
\* raise ValueError('Unknown system type')
FreqKnown(r, w, n, whole) ==
    IF r.status # "ok" THEN SimRaise(r.status)
    ELSE IF ~IsInstance(r.obj, TransferFunction) /\ ~IsInstance(r.obj, ZerosPolesGain)
    THEN SimRaise("ValueError")
    ELSE FreqSiso(r, w, n, whole)

\* a StateSpace system goes through _as_tf()
FreqAsTf(r, w, n, whole) ==
    IF r.status # "ok" THEN SimRaise(r.status)
    ELSE FreqKnown(IF IsInstance(r.obj, StateSpace) THEN _as("TransferFunction", r.obj) ELSE r,
                   w, n, whole)

\* dfreqresp(system, w, n, whole)
dfreqresp(sa, h, w, n, whole) ==
    IF sa.k = "obj" /\ ~IsInstance(h[sa.id], dlti) THEN SimRaise("AttributeError")
    ELSE FreqAsTf(AsDlti(sa, h), w, n, whole)

\* dbode once dfreqresp returned (w, y): dt = system.dt or system[-1], and
\* the return of w / dt, mag, phase; mag and phase are functions of y, kept
\* as y (w / None raises TypeError, w / 0 is outside the model)
BodeOf(r, dt) ==
    IF r.status # "ok" THEN SimRaise(r.status)
    ELSE IF dt.k = "None" THEN SimRaise("TypeError")
    ELSE IF dt.v = RZ THEN SimUnmodelled
    ELSE [r EXCEPT !.nret = 3, !.w = [i \in 1..Len(r.w) |-> RDiv(r.w[i], dt.v)]]

\* dbode(system, w, n)
dbode(sa, h, w, n) ==
    BodeOf(dfreqresp(sa, h, w, n, FALSE), IF sa.k = "obj" THEN h[sa.id].dt ELSE sa.dt)

(***************************************************************************)
(* StateSpace algebra                                                      *)
(***************************************************************************)
\* a method that returns NotImplemented
NotImplemented == [status |-> "NotImplemented", obj |-> NewObject("", ""), same |-> FALSE]

\* StateSpace._check_binop_other: a StateSpace system or an array
_check_binop_other(other, h) ==
    other.k = "arr" \/ IsInstance(h[other.id], StateSpace)

\* the matrices __mul__ and __rmul__ hand to StateSpace(a, b, c, d, dt)
Abcd(a, b, c, d) == [status |-> "ok", A |-> a, B |-> b, C |-> c, D |-> d]

\* the series connection in the other order: other applied after self
MulSystems_swapped(self, other) ==
    IF other.fam # self.fam THEN NotImplemented
    ELSE IF PyNe(self.dt, other.dt) THEN Raise("TypeError")
    ELSE IF NCols(other.B) # NRows(self.C) THEN Raise("ValueError")
    ELSE MakeSs(Abcd(vstack(hstack(other.A, MatMul(other.B, self.C)),
                            hstack(Zeros2(NRows(self.A), NRows(other.A)), self.A)),
                     vstack(MatMul(other.B, self.D), self.B),
                     hstack(other.C, MatMul(other.D, self.C)),
                     MatMul(other.D, self.D)),
                _dt_dict(self))

\* the series connection with the output block D1 C2 of the wrong sign
MulSystems_wrongsign(self, other) ==
    IF other.fam # self.fam THEN NotImplemented
    ELSE IF PyNe(self.dt, other.dt) THEN Raise("TypeError")
    ELSE IF NCols(self.B) # NRows(other.C) THEN Raise("ValueError")
    ELSE MakeSs(Abcd(vstack(hstack(self.A, MatMul(self.B, other.C)),
                            hstack(Zeros2(NRows(other.A), NRows(self.A)), other.A)),
                     vstack(MatMul(self.B, other.D), other.B),
                     hstack(self.C, MatNeg(MatMul(self.D, other.C))),
                     MatMul(self.D, other.D)),
                _dt_dict(self))

\* the series connection with the coupling block B1 C2 left zero
MulSystems_uncoupled(self, other) ==
    IF other.fam # self.fam THEN NotImplemented
    ELSE IF PyNe(self.dt, other.dt) THEN Raise("TypeError")
    ELSE IF NCols(self.B) # NRows(other.C) THEN Raise("ValueError")
    ELSE MakeSs(Abcd(vstack(hstack(self.A, Zeros2(NRows(self.A), NRows(other.A))),
                            hstack(Zeros2(NRows(other.A), NRows(self.A)), other.A)),
                     vstack(MatMul(self.B, other.D), other.B),
                     hstack(self.C, MatMul(self.D, other.C)),
                     MatMul(self.D, other.D)),
                _dt_dict(self))

\* StateSpace.__mul__ for a StateSpace other: the series connection
MulSystems(self, other) ==
    IF other.fam # self.fam THEN NotImplemented
    ELSE IF PyNe(self.dt, other.dt) THEN Raise("TypeError")
    ELSE IF NCols(self.B) # NRows(other.C) THEN Raise("ValueError")
    ELSE MakeSs(Abcd(vstack(hstack(self.A, MatMul(self.B, other.C)),
                            hstack(Zeros2(NRows(other.A), NRows(self.A)), other.A)),
                     vstack(MatMul(self.B, other.D), other.B),
                     hstack(self.C, MatMul(self.D, other.C)),
                     MatMul(self.D, other.D)),
                _dt_dict(self))

\* StateSpace.__mul__ for a 2-D array other: the input is scaled
MulMatrix(self, M) ==
    IF NCols(self.B) # NRows(M) THEN Raise("ValueError")
    ELSE MakeSs(Abcd(self.A, MatMul(self.B, M), self.C, MatMul(self.D, M)), _dt_dict(self))

\* StateSpace.__mul__ for an other that is no system: b = self.B @ other,
\* d = self.D @ other.  The matrix product accepts no 0-dimensional operand
\* (a Python or numpy scalar is a TypeError, a 0-d array a ValueError); a
\* one-dimensional operand is outside the model's inputs
MulOther(self, other) ==
    IF other.nd = 0 THEN Raise("TypeError")
    ELSE IF other.nd = 1 THEN Unmodelled
    ELSE MulMatrix(self, other.a)

\* StateSpace.__mul__
StateSpace_mul(self, other, h) ==
    IF ~_check_binop_other(other, h) THEN NotImplemented
    ELSE IF other.k = "sys" THEN MulSystems(self, h[other.id])
    ELSE MulOther(self, other)

\* StateSpace.__rmul__ for a 2-D array other: the output is scaled
RmulMatrix(self, M) ==
    IF NCols(M) # NRows(self.C) THEN Raise("ValueError")
    ELSE MakeSs(Abcd(self.A, self.B, MatMul(M, self.C), MatMul(M, self.D)), _dt_dict(self))

\* StateSpace.__rmul__: c = other @ self.C, d = other @ self.D
StateSpace_rmul(self, other, h) ==
    IF ~_check_binop_other(other, h) \/ other.k = "sys" THEN NotImplemented
    ELSE IF other.nd = 0 THEN Raise("TypeError")
    ELSE IF other.nd = 1 THEN Unmodelled
    ELSE RmulMatrix(self, other.a)

\* Python's a * b after a.__mul__(b) returned r: on NotImplemented the
\* reflected b.__rmul__(a) is tried where b has one (StateSpace has,
\* TransferFunction and ZerosPolesGain have not), and TypeError is raised
\* when that returns NotImplemented too
Reflected(r, nr) ==
    IF r.status # "NotImplemented" THEN r
    ELSE IF nr.status # "NotImplemented" THEN nr
    ELSE Raise("TypeError")

\* heap[i] * other for a StateSpace heap[i]
Star(i, other, h) ==
    Reflected(StateSpace_mul(h[i], other, h),
              IF other.k = "sys" /\ IsInstance(h[other.id], StateSpace)
              THEN StateSpace_rmul(h[other.id], SysArg(i), h)
              ELSE NotImplemented)

\* linalg.block_diag(X, Y)
block_diag(X, Y) ==
    vstack(hstack(X, Zeros2(NRows(X), NCols(Y))), hstack(Zeros2(NRows(Y), NCols(X)), Y))

\* cupy.atleast_2d(other) for a scalar or an array
atleast_2d(other) ==
    CASE other.nd = 0 -> <<<<other.a>>>>
      [] other.nd = 1 -> <<other.a>>
      [] OTHER -> other.a

\* -other for a scalar or an array
ArrNeg(other) ==
    CASE other.nd = 0 -> ArrArg(RNeg(other.a), 0)
      [] other.nd = 1 -> ArrArg([k \in 1..Len(other.a) |-> RNeg(other.a[k])], 1)
      [] OTHER -> ArrArg(MatNeg(other.a), 2)

\* the parallel connection in which the states of other count twice
AddSystems_lopsided(self, other) ==
    IF other.fam # self.fam THEN Raise("TypeError")
    ELSE IF PyNe(self.dt, other.dt) THEN Raise("TypeError")
    ELSE IF NCols(self.B) # NCols(other.B) \/ NRows(self.C) # NRows(other.C)
    THEN Raise("ValueError")
    ELSE MakeSs(Abcd(block_diag(self.A, other.A), vstack(self.B, other.B),
                     hstack(self.C, MatScale(other.C, RI(2))), MatAdd(self.D, other.D)),
                _dt_dict(self))

\* the parallel connection with the feedthrough of self alone
AddSystems_nofeed(self, other) ==
    IF other.fam # self.fam THEN Raise("TypeError")
    ELSE IF PyNe(self.dt, other.dt) THEN Raise("TypeError")
    ELSE IF NCols(self.B) # NCols(other.B) \/ NRows(self.C) # NRows(other.C)
    THEN Raise("ValueError")
    ELSE MakeSs(Abcd(block_diag(self.A, other.A), vstack(self.B, other.B),
                     hstack(self.C, other.C), self.D),
                _dt_dict(self))

\* StateSpace.__add__ for a StateSpace other: the parallel connection
\* (vstack and hstack raise ValueError for operands that do not fit)
AddSystems(self, other) ==
    IF other.fam # self.fam THEN Raise("TypeError")
    ELSE IF PyNe(self.dt, other.dt) THEN Raise("TypeError")
    ELSE IF NCols(self.B) # NCols(other.B) \/ NRows(self.C) # NRows(other.C)
    THEN Raise("ValueError")
    ELSE MakeSs(Abcd(block_diag(self.A, other.A), vstack(self.B, other.B),
                     hstack(self.C, other.C), MatAdd(self.D, other.D)),
                _dt_dict(self))

\* the array added whatever its shape, a single entry spread over D
AddMatrix_broadcast(self, M) ==
    IF Shape(M) = <<1, 1>>
    THEN MakeSs(Abcd(self.A, self.B, self.C,
                     [i \in 1..NRows(self.D) |->
                        [j \in 1..NCols(self.D) |-> RAdd(self.D[i][j], M[1][1])]]),
                _dt_dict(self))
    ELSE IF Shape(self.D) # Shape(M) THEN Raise("ValueError")
    ELSE MakeSs(Abcd(self.A, self.B, self.C, MatAdd(self.D, M)), _dt_dict(self))

\* StateSpace.__add__ for an other that is no system, made 2-D: a static
\* system of the shape of D
AddMatrix(self, M) ==
    IF Shape(self.D) # Shape(M) THEN Raise("ValueError")
    ELSE MakeSs(Abcd(self.A, self.B, self.C, MatAdd(self.D, M)), _dt_dict(self))

\* StateSpace.__add__
StateSpace_add(self, other, h) ==
    IF ~_check_binop_other(other, h) THEN NotImplemented
    ELSE IF other.k = "sys" THEN AddSystems(self, h[other.id])
    ELSE AddMatrix(self, atleast_2d(other))

\* StateSpace.__neg__
StateSpace_neg(self) ==
    MakeSs(Abcd(self.A, self.B, MatNeg(self.C), MatNeg(self.D)), _dt_dict(self))

\* self.__add__(n) for the system n that a negation returned
AddNegated(self, n) ==
    IF n.status # "ok" THEN n ELSE AddSystems(self, n.obj)

\* subtraction that adds the operand as it is
StateSpace_sub_plain(self, other, h) == StateSpace_add(self, other, h)

\* StateSpace.__sub__: self.__add__(-other)
StateSpace_sub(self, other, h) ==
    IF ~_check_binop_other(other, h) THEN NotImplemented
    ELSE IF other.k = "sys" THEN AddNegated(self, StateSpace_neg(h[other.id]))
    ELSE AddMatrix(self, atleast_2d(ArrNeg(other)))

\* StateSpace.__radd__: self.__add__(other)
StateSpace_radd(self, other, h) ==
    IF ~_check_binop_other(other, h) THEN NotImplemented
    ELSE StateSpace_add(self, other, h)

\* n.__add__(other) for the system n that the negation of self returned
NegatedAdd(n, other, h) ==
    IF n.status # "ok" THEN n ELSE StateSpace_add(n.obj, other, h)

\* StateSpace.__rsub__: (-self).__add__(other)
StateSpace_rsub(self, other, h) ==
    IF ~_check_binop_other(other, h) THEN NotImplemented
    ELSE NegatedAdd(StateSpace_neg(self), other, h)

\* StateSpace.__truediv__: self.__mul__(1/other) for a 0-dimensional other
StateSpace_truediv(self, other, h) ==
    IF ~_check_binop_other(other, h) \/ other.k = "sys" THEN NotImplemented
    ELSE IF other.nd > 0 THEN Raise("ValueError")
    ELSE IF other.a = RZ THEN Raise("ZeroDivisionError")
    ELSE StateSpace_mul(self, ArrArg(RDiv(R1, other.a), 0), h)

\* Is other a StateSpace system of the heap
IsSs(other, h) == other.k = "sys" /\ IsInstance(h[other.id], StateSpace)

\* heap[i] + other, heap[i] - other and heap[i] / other for a StateSpace
\* heap[i]: the reflected method of a StateSpace other is tried after
\* NotImplemented (there is no __rtruediv__)
Plus(i, other, h) ==
    Reflected(StateSpace_add(h[i], other, h),
              IF IsSs(other, h) THEN StateSpace_radd(h[other.id], SysArg(i), h)
              ELSE NotImplemented)

Minus(i, other, h) ==
    Reflected(StateSpace_sub(h[i], other, h),
              IF IsSs(other, h) THEN StateSpace_rsub(h[other.id], SysArg(i), h)
              ELSE NotImplemented)

Slash(i, other, h) == Reflected(StateSpace_truediv(h[i], other, h), NotImplemented)

\* other + heap[i] and other - heap[i] for a Python scalar or an array that
\* leaves the operation to the system: the reflected methods
RPlus(i, other, h) == Reflected(NotImplemented, StateSpace_radd(h[i], other, h))

RMinus(i, other, h) == Reflected(NotImplemented, StateSpace_rsub(h[i], other, h))

(***************************************************************************)
(* Bounds and the inputs the environment draws from                        *)
(***************************************************************************)
MaxObj == 2

MaxArgs == 5

MaxSets == 1

\* the largest number of samples of an input and of points asked for
MaxN == 4

\* the number of algebraic operations in a behaviour
MaxOps == 1

H == Q(1, 2)

\* the values a dt keyword or a dt assignment takes
DtVals == {DtNone, DtTrue, DtNum(RI(-1)), DtNum(RZ), DtNum(RI(2))}

KwVals == {DtAbsent} \cup DtVals

\* num = [1], den = [1, -1/2]
TFSys == <<ArrArg(<<R1>>, 1), ArrArg(<<R1, RNeg(H)>>, 1)>>

\* zeros = [], poles = [1/2], gain = 1
ZPKSys == <<ArrArg(<<>>, 1), ArrArg(<<H>>, 1), ArrArg(R1, 0)>>

\* A = [[1/2]], B = [[1]], C = [[1]], D = [[0]]
SSSys == <<ArrArg(<<<<H>>>>, 2), ArrArg(<<<<R1>>>>, 2), ArrArg(<<<<R1>>>>, 2), ArrArg(<<<<RZ>>>>, 2)>>

\* N positional arguments: coefficient arrays of the representation that
\* takes N, any arrays for the other arities
SysN(N) ==
    CASE N = 2 -> TFSys
      [] N = 3 -> ZPKSys
      [] N = 4 -> SSSys
      [] OTHER -> [i \in 1..N |-> ArrArg(<<R1>>, 1)]

\* the same arguments with a system of the heap as the first one
WithFirst(system, i) ==
    IF i = 0 \/ system = <<>> THEN system ELSE [system EXCEPT ![1] = SysArg(i)]

Callables == {Cls(r, f) : r \in Reps \cup {""}, f \in Families \cup {""}} \ {LinearTimeInvariant}

GenericClasses == {lti, dlti}

RepClasses == Callables \ GenericClasses

Ids == 1..Len(heap)

\* the values the coefficient setters are called with
NewDen == <<R1, RZ>>

NewPoles == <<RZ>>

NewA == <<<<RZ>>>>

Blank == [op |-> "", cls |-> LinearTimeInvariant, system |-> <<>>, kw |-> DtAbsent,
          rep |-> "", src |-> 0, status |-> "", out |-> 0, same |-> FALSE,
          sa |-> ObjSys(0), u |-> ArrArg(<<>>, 1), t |-> NoneArg, x0 |-> NoneArg,
          n |-> 0, nopt |-> NoSamples, win |-> NoneArg, whole |-> FALSE,
          nret |-> 0, tout |-> <<>>, yout |-> <<>>, xout |-> <<>>,
          youts |-> <<>>, w |-> <<>>, h |-> <<>>]

(***************************************************************************)
(* Construction, conversion and assignment: the life of system objects     *)
(***************************************************************************)
Init == heap = <<>> /\ res = Blank /\ nset = 0

\* an exception is not caught: the program goes on after a call that
\* returned only
Running == res.status \in {"", "ok"}

\* the heap and the record of a call that returned (or raised) r; a new
\* object gets the next identity, the receiver keeps its own
Returned(base, r) ==
    /\ Running
    /\ r.status # "unmodelled"
    /\ r.status = "ok" /\ ~r.same => Len(heap) < MaxObj
    /\ heap' = IF r.status = "ok" /\ ~r.same THEN Append(heap, r.obj) ELSE heap
    /\ res' = [base EXCEPT !.status = r.status, !.same = r.same,
                           !.out = IF r.status # "ok" THEN 0
                                   ELSE IF r.same THEN base.src ELSE Len(heap) + 1]

\* the number of positional arguments a representation is built from
Arity(rep) ==
    CASE rep = "TransferFunction" -> 2
      [] rep = "ZerosPolesGain" -> 3
      [] OTHER -> 4

\* The call cls(system[1], ..., system[N], dt = kw), with system[1] the
\* object heap[first] when first > 0
New(cls, system, first, kw) ==
    /\ Len(heap) < MaxObj
    /\ Returned([Blank EXCEPT !.op = "new", !.cls = cls, !.system = system,
                              !.kw = kw, !.src = first],
                Call(cls, system, kw, heap))
    /\ UNCHANGED nset

\* lti(...) and dlti(...) with any number of arrays
NewGeneric(cls, N, kw) ==
    /\ heap = <<>>
    /\ cls.fam = "lti" => kw \in {DtAbsent, DtNum(RI(2))}
    /\ New(cls, SysN(N), 0, kw)

\* TransferFunction(...), ZerosPolesGain(...), StateSpace(...) and their
\* continuous and discrete subclasses, with no argument or with the arrays
\* of the representation
NewRep(cls, N, kw) ==
    /\ heap = <<>>
    /\ N \in {0, Arity(cls.rep)}
    /\ cls.fam = "lti" => kw \in {DtAbsent, DtNum(RI(2))}
    /\ New(cls, SysN(N), 0, kw)

\* cls(S) for a system S: the conversion branch of __new__ (lti and dlti
\* have none and raise); a dt keyword goes to the classes that take one
NewFrom(cls, i, kw) ==
    /\ kw # DtAbsent => cls.fam = ""
    /\ New(cls, <<SysArg(i)>>, i, kw)

\* cls(S, array, ...): a system passed where the first array is expected
NewMixed(cls, N, i) ==
    /\ heap[i].inited
    /\ cls.rep # "" => N = Arity(cls.rep)
    /\ New(cls, WithFirst(SysN(N), i), i, DtAbsent)

\* heap[i].to_tf(), .to_zpk(), .to_ss()
Convert(i, rep) ==
    /\ Len(heap) < MaxObj
    /\ Returned([Blank EXCEPT !.op = "to", !.rep = rep, !.src = i], to_(rep, heap[i]))
    /\ UNCHANGED nset

\* heap[i]._as_tf(), ._as_zpk(), ._as_ss()
As(i, rep) ==
    /\ Len(heap) < MaxObj
    /\ Returned([Blank EXCEPT !.op = "as", !.rep = rep, !.src = i], _as(rep, heap[i]))
    /\ UNCHANGED nset

\* heap[i].dt = dt: dlti has the setter, lti has a read-only property
SetDt(i, dt) ==
    /\ Running
    /\ heap[i].inited
    /\ nset < MaxSets
    /\ nset' = nset + 1
    /\ IF heap[i].fam = "dlti"
       THEN /\ heap' = [heap EXCEPT ![i] = dlti_set_dt(@, dt)]
            /\ res' = [Blank EXCEPT !.op = "set_dt", !.kw = dt, !.src = i, !.status = "ok", !.out = i]
       ELSE /\ heap' = heap
            /\ res' = [Blank EXCEPT !.op = "set_dt", !.kw = dt, !.src = i, !.status = "AttributeError"]

\* heap[i].den = NewDen, heap[i].poles = NewPoles, heap[i].A = NewA
SetCoef(i) ==
    /\ Running
    /\ heap[i].inited
    /\ nset < MaxSets
    /\ nset' = nset + 1
    /\ heap' = [heap EXCEPT ![i] =
                  CASE @.rep = "TransferFunction" -> set_den(@, NewDen)
                    [] @.rep = "ZerosPolesGain" -> set_poles(@, NewPoles)
                    [] OTHER -> set_A(@, NewA)]
    /\ res' = [Blank EXCEPT !.op = "set_coef", !.src = i, !.status = "ok", !.out = i]

Next ==
    \/ \E cls \in GenericClasses, N \in 0..MaxArgs, kw \in KwVals : NewGeneric(cls, N, kw)
    \/ \E cls \in RepClasses, N \in 0..MaxArgs, kw \in KwVals : NewRep(cls, N, kw)
    \/ \E cls \in Callables, i \in Ids, kw \in {DtAbsent, DtNum(RI(2))} : NewFrom(cls, i, kw)
    \/ \E cls \in Callables, N \in 2..4, i \in Ids : NewMixed(cls, N, i)
    \/ \E i \in Ids, rep \in Reps : Convert(i, rep)
    \/ \E i \in Ids, rep \in Reps : As(i, rep)
    \/ \E i \in Ids, dt \in DtVals : SetDt(i, dt)
    \/ \E i \in Ids : SetCoef(i)

Spec == Init /\ [][Next]_vars

(***************************************************************************)
(* Properties of construction and conversion (specification Spec)          *)
(***************************************************************************)
\* the step was a call that created exactly one object, returned as res'.out
CreatedOne ==
    /\ res'.status = "ok"
    /\ res'.out = Len(heap) + 1
    /\ Len(heap') = Len(heap) + 1
    /\ SubSeq(heap', 1, Len(heap)) = heap

\* the step was a call of lti or dlti with positional arguments only where
\* lti is concerned (lti takes no keyword; dlti takes dt)
GenericCall ==
    /\ res'.op = "new"
    /\ res'.cls \in GenericClasses
    /\ res'.cls = lti => res'.kw = DtAbsent

ArityDispatch ==
    GenericCall =>
        IF Len(res'.system) \in 2..4
        THEN /\ CreatedOne
             /\ heap'[res'.out].rep = (CASE Len(res'.system) = 2 -> "TransferFunction"
                                         [] Len(res'.system) = 3 -> "ZerosPolesGain"
                                         [] OTHER -> "StateSpace")
             /\ heap'[res'.out].fam = res'.cls.fam
        ELSE /\ res'.status = "ValueError"
             /\ heap' = heap

\* C4: lti(...) and dlti(...) with 2 positional arguments create a
\* TransferFunction, with 3 a ZerosPolesGain, with 4 a StateSpace, of the
\* continuous family for lti and of the discrete family for dlti; with any
\* other number of positional arguments the call raises ValueError and
\* the heap is left as it was.
ClaimC4 == [][ArityDispatch]_vars

\* dlti(A, B, C, D) returned a discrete StateSpace
WitnessC4 ==
    /\ res.op = "new" /\ res.cls = dlti /\ Len(res.system) = 4
    /\ res.status = "ok"
    /\ heap[res.out].rep = "StateSpace" /\ heap[res.out].fam = "dlti"

\* the last call was a representation class called with one argument,
\* a system
ConversionCall ==
    /\ res.op = "new"
    /\ res.cls.rep # ""
    /\ Len(res.system) = 1
    /\ res.system[1].k = "sys"

\* C5: TransferFunction(S), ZerosPolesGain(S), StateSpace(S) (and their
\* subclasses) for a system S return what S.to_tf(), S.to_zpk(), S.to_ss()
\* return: the same outcome and, when an object is returned, an object with
\* the class, coefficients and dt of the conversion's result, untouched by
\* __init__.
ClaimC5 ==
    ConversionCall =>
        /\ res.status = to_(res.cls.rep, heap[res.src]).status
        /\ res.status = "ok" =>
              /\ res.out = Len(heap)
              /\ res.out # res.src
              /\ heap[res.out] = to_(res.cls.rep, heap[res.src]).obj

\* StateSpace(S) for a discrete TransferFunction S returned the discrete
\* StateSpace of S.to_ss(), with S's dt
WitnessC5 ==
    /\ ConversionCall /\ res.cls = StateSpace /\ res.status = "ok"
    /\ heap[res.src].rep = "TransferFunction" /\ heap[res.src].fam = "dlti"
    /\ heap[res.src].dt = DtNum(RI(2))
    /\ heap[res.out].rep = "StateSpace" /\ heap[res.out].fam = "dlti"
    /\ heap[res.out].inited
    /\ heap[res.out].A = <<<<H>>>>
    /\ heap[res.out].dt = DtNum(RI(2))

\* the last call built a system from coefficient arrays
ArrayCall == res.op = "new" /\ AllArrays(res.system) /\ res.status = "ok"

\* C6: a system built from coefficients is of the discrete family exactly
\* when it was built through dlti (or a discrete subclass) or by a
\* representation constructor given a dt keyword; through lti, or through
\* a representation constructor without dt, it is of the continuous family.
ClaimC6 ==
    ArrayCall =>
        /\ heap[res.out].fam \in Families
        /\ heap[res.out].fam = "dlti" <=>
              \/ res.cls.fam = "dlti"
              \/ res.cls.rep # "" /\ res.kw.k # "absent"

\* StateSpace(A, B, C, D, dt=2) returned a discrete system with dt 2
WitnessC6 ==
    /\ ArrayCall /\ res.cls = StateSpace /\ res.kw = DtNum(RI(2))
    /\ heap[res.out].fam = "dlti" /\ heap[res.out].dt = DtNum(RI(2))

\* a sample period a discrete system may have: True or a positive number
ValidDt(dt) == dt.k = "True" \/ (dt.k = "num" /\ RLt(RZ, dt.v))

\* C7 as stated: every initialised system of the continuous family has
\* dt None, every initialised system of the discrete family has dt True
\* or a positive number.  The code breaks it: dlti(num, den, dt=None),
\* dt=0 and dt=-1 are accepted, and the dt setter checks nothing.
ClaimC7 ==
    \A i \in Ids :
        heap[i].inited =>
            /\ heap[i].fam = "lti" => heap[i].dt = DtNone
            /\ heap[i].fam = "dlti" => ValidDt(heap[i].dt)

\* The part of C7 the code keeps: a continuous system has dt None, and
\* assigning its dt raises AttributeError and changes nothing.
ContinuousDtFixed ==
    /\ \A i \in Ids : heap[i].inited /\ heap[i].fam = "lti" => heap[i].dt = DtNone
    /\ res.op = "set_dt" /\ heap[res.src].fam = "lti" => res.status = "AttributeError"

\* the last call was a conversion of heap[res.src] that returned a system
Converted ==
    /\ res.op \in {"to", "as"} \/ ConversionCall
    /\ res.status = "ok"

\* C8 as stated, for conversions: the system a conversion returns has the
\* family and the dt of the system converted.  The code breaks it for a
\* discrete system whose dt is None (see C7): _dt_dict passes no dt on and
\* the result is continuous.
ClaimC8 ==
    Converted =>
        /\ heap[res.out].fam = heap[res.src].fam
        /\ heap[res.out].inited /\ heap[res.src].inited => heap[res.out].dt = heap[res.src].dt

\* C8 where C7 holds of the system converted: family and dt are kept
ConversionKeepsValidDt ==
    Converted /\ heap[res.src].inited
              /\ (heap[res.src].fam = "dlti" => ValidDt(heap[res.src].dt))
        => /\ heap[res.out].fam = heap[res.src].fam
           /\ heap[res.out].dt = heap[res.src].dt

CopyAndAccess ==
    /\ res'.op = "to" /\ res'.status = "ok" /\ heap[res'.src].rep = res'.rep =>
          /\ CreatedOne
          /\ res'.out # res'.src
          /\ heap'[res'.out] = heap[res'.src]
    /\ res'.op = "as" /\ heap[res'.src].rep = res'.rep =>
          /\ res'.status = "ok"
          /\ res'.out = res'.src
          /\ heap' = heap
    /\ res'.op = "as" /\ heap[res'.src].rep # res'.rep =>
          /\ res'.status = to_(res'.rep, heap[res'.src]).status
          /\ res'.status = "ok" =>
                CreatedOne /\ heap'[res'.out] = to_(res'.rep, heap[res'.src]).obj
    /\ res'.op = "set_coef" =>
          \A j \in Ids : j # res'.src => heap'[j] = heap[j]

\* C9: to_tf on a TransferFunction, to_zpk on a ZerosPolesGain and to_ss
\* on a StateSpace return a new object whose fields equal the receiver's;
\* a setter called on one object changes no other object; _as_tf, _as_zpk
\* and _as_ss return the receiver itself when it is of that representation
\* and what to_tf, to_zpk, to_ss return otherwise.
ClaimC9 == [][CopyAndAccess]_vars

\* heap[2] is the copy heap[1].to_ss() made and a setter then changed A
\* of the copy only
WitnessC9 ==
    /\ Len(heap) = 2
    /\ res.op = "set_coef" /\ res.src = 2
    /\ heap[1].rep = "StateSpace" /\ heap[2].rep = "StateSpace"
    /\ heap[1].inited /\ heap[2].inited
    /\ heap[1].A = <<<<H>>>> /\ heap[2].A = NewA
    /\ heap[2] = set_A(heap[1], NewA)

(***************************************************************************)
(* Simulation of one system: dlsim, dimpulse, dstep, dfreqresp             *)
(* (specification SpecSim)                                                 *)
(***************************************************************************)
\* A = [[0, 1], [1/2, 0]], B = I, C = [[1, 0]], D = [[0, 1]]: two states,
\* two inputs, one output
SS2Sys ==
    <<ArrArg(<<<<RZ, R1>>, <<H, RZ>>>>, 2), ArrArg(<<<<R1, RZ>>, <<RZ, R1>>>>, 2),
      ArrArg(<<<<R1, RZ>>>>, 2), ArrArg(<<<<RZ, R1>>>>, 2)>>

SimArgs == {TFSys, ZPKSys, SSSys, SS2Sys}

SimDts == {DtNone, DtNum(RZ), DtTrue, DtNum(R1), DtNum(H)}

\* the systems simulated: dlti(*args, dt=dt) and lti(*args)
SimSystems ==
    {Construct(dlti, a, dt).obj : a \in SimArgs, dt \in SimDts}
        \cup {Construct(lti, a, DtAbsent).obj : a \in SimArgs}

\* the coefficients of a system, as the tuple forms list them
CoefArgs(o) ==
    CASE o.rep = "TransferFunction" -> <<ArrArg(o.num, o.numnd), ArrArg(o.den, 1)>>
      [] o.rep = "ZerosPolesGain" -> <<ArrArg(o.zeros, 1), ArrArg(o.poles, 1), ArrArg(o.gain, 0)>>
      [] OTHER -> <<ArrArg(o.A, 2), ArrArg(o.B, 2), ArrArg(o.C, 2), ArrArg(o.D, 2)>>

\* the system argument: the object heap[1] or the tuple of its
\* coefficients and dt
SysForms == {ObjSys(1), TupleSys(CoefArgs(heap[1]), heap[1].dt)}

Bits(n) == [1..n -> {RZ, R1}]

\* inputs: 1-D arrays of up to MaxN samples
SimU1 == {ArrArg(a, 1) : a \in UNION {Bits(n) : n \in 0..MaxN}}

\* inputs: 2-D arrays of two columns
SimU2 == {ArrArg(a, 2) : a \in UNION {[1..n -> {<<R1, RZ>>, <<RZ, R1>>}] : n \in 1..2}}

SimT ==
    {NoneArg} \cup {Given(t) : t \in {<<>>, <<RZ, R1>>, <<RZ, R1, RI(2)>>,
                                      <<RZ, Q(3, 2)>>, <<R1, RZ>>}}

SimX0 == {NoneArg} \cup {Given(x) : x \in {<<RZ>>, <<R1>>, <<R1, RZ>>}}

SimW == {NoneArg} \cup {Given(w) : w \in {<<RZ>>, <<R1>>, <<RZ, RI(2)>>, <<RI(3), R1>>}}

InitSim == heap \in {<<o>> : o \in SimSystems} /\ res = Blank /\ nset = 0

\* the record of a simulation call that returned (or raised) r.  The
\* routines change no object and keep nothing between calls, so a
\* behaviour makes one call.
Simulated(base, r) ==
    /\ res = Blank
    /\ r.status # "unmodelled"
    /\ res' = [base EXCEPT !.status = r.status, !.nret = r.nret, !.tout = r.tout,
                           !.yout = r.yout, !.xout = r.xout, !.youts = r.youts,
                           !.w = r.w, !.h = r.h]
    /\ UNCHANGED <<heap, nset>>

Dlsim(sa, u, t, x0) ==
    Simulated([Blank EXCEPT !.op = "dlsim", !.sa = sa, !.u = u, !.t = t, !.x0 = x0],
              dlsim(sa, heap, u, t, x0))

Dimpulse(sa, x0, t, n) ==
    Simulated([Blank EXCEPT !.op = "dimpulse", !.sa = sa, !.x0 = x0, !.t = t, !.n = n],
              dimpulse(sa, heap, x0, t, Given(n)))

Dstep(sa, x0, t, n) ==
    Simulated([Blank EXCEPT !.op = "dstep", !.sa = sa, !.x0 = x0, !.t = t, !.n = n],
              dstep(sa, heap, x0, t, Given(n)))

Dfreqresp(sa, w, n, whole) ==
    Simulated([Blank EXCEPT !.op = "dfreqresp", !.sa = sa, !.win = w, !.n = n, !.whole = whole],
              dfreqresp(sa, heap, w, n, whole))

NextSim ==
    \/ \E sa \in SysForms, u \in SimU1, t \in SimT, x0 \in SimX0 : Dlsim(sa, u, t, x0)
    \/ \E sa \in SysForms, u \in SimU2, t \in SimT, x0 \in SimX0 : Dlsim(sa, u, t, x0)
    \/ \E sa \in SysForms, x0 \in SimX0, t \in SimT, n \in 0..MaxN : Dimpulse(sa, x0, t, n)
    \/ \E sa \in SysForms, x0 \in SimX0, t \in SimT, n \in 0..MaxN : Dstep(sa, x0, t, n)
    \/ \E sa \in SysForms, w \in SimW, n \in 1..MaxN, whole \in BOOLEAN : Dfreqresp(sa, w, n, whole)

SpecSim == InitSim /\ [][NextSim]_vars

(***************************************************************************)
(* Properties of the simulation routines (specification SpecSim)           *)
(***************************************************************************)
\* the system argument of the last call is a StateSpace object or a tuple
\* (A, B, C, D, dt)
StateSpaceForm ==
    \/ res.sa.k = "obj" /\ heap[res.sa.id].rep = "StateSpace"
    \/ res.sa.k = "tuple" /\ Len(res.sa.args) = 4

\* the matrices and the dt of a system argument in StateSpace form
GivenA == IF res.sa.k = "obj" THEN heap[res.sa.id].A ELSE res.sa.args[1].a

GivenB == IF res.sa.k = "obj" THEN heap[res.sa.id].B ELSE res.sa.args[2].a

GivenC == IF res.sa.k = "obj" THEN heap[res.sa.id].C ELSE res.sa.args[3].a

GivenD == IF res.sa.k = "obj" THEN heap[res.sa.id].D ELSE res.sa.args[4].a

GivenDt == IF res.sa.k = "obj" THEN heap[res.sa.id].dt ELSE res.sa.dt

\* the input as N rows, one per sample
GivenU == AtLeast2dT(res.u)

\* t is left out, or names the N sampling instants 0, dt, ..., (N-1) dt
OnTheGrid ==
    \/ ~res.t.given
    \/ /\ RLt(RZ, GivenDt.v)
       /\ Len(res.t.a) = Len(GivenU)
       /\ Len(res.t.a) >= 2
       /\ \A i \in 1..Len(res.t.a) : res.t.a[i] = RMul(RI(i - 1), GivenDt.v)

\* dlsim was called on a discrete StateSpace system with N >= 1 samples
\* of as many inputs as B has columns, and x0 omitted or one value per state
SimulatedStateSpace ==
    /\ res.op = "dlsim"
    /\ StateSpaceForm
    /\ res.sa.k = "obj" => heap[res.sa.id].fam = "dlti"
    /\ GivenDt.k # "None"
    /\ OnTheGrid
    /\ Len(GivenU) >= 1
    /\ NCols(GivenU) = NCols(GivenB)
    /\ res.x0.given => Len(res.x0.a) = NRows(GivenA)

\* C1: for a discrete StateSpace system (A, B, C, D), an input u of N >= 1
\* samples and an initial state x0 (zero when omitted), dlsim returns x and
\* y with x[0] = x0, x[i+1] = A x[i] + B u[i] for 0 <= i <= N-2 and
\* y[i] = C x[i] + D u[i] for 0 <= i <= N-1.
ClaimC1 ==
    SimulatedStateSpace =>
        /\ res.status = "ok"
        /\ Len(res.xout) = Len(GivenU)
        /\ Len(res.yout) = Len(GivenU)
        /\ res.xout[1] = (IF res.x0.given THEN res.x0.a ELSE Zeros1(NRows(GivenA)))
        /\ \A i \in 1..(Len(GivenU) - 1) :
              res.xout[i + 1] = VecAdd(MatVec(GivenA, res.xout[i]), MatVec(GivenB, GivenU[i]))
        /\ \A i \in 1..Len(GivenU) :
              res.yout[i] = VecAdd(MatVec(GivenC, res.xout[i]), MatVec(GivenD, GivenU[i]))

\* A = 1/2, B = 1, C = 1, D = 0, dt = 1, u = [1, 0, 0, 0], x0 = [0] gave
\* x = y = [0, 1, 1/2, 1/4]
WitnessC1 ==
    /\ SimulatedStateSpace
    /\ res.sa.k = "obj"
    /\ NRows(GivenA) = 1 /\ GivenA = <<<<H>>>> /\ GivenB = <<<<R1>>>>
    /\ GivenC = <<<<R1>>>> /\ GivenD = <<<<RZ>>>>
    /\ GivenDt = DtNum(R1)
    /\ res.u.nd = 1 /\ res.u.a = <<R1, RZ, RZ, RZ>>
    /\ res.x0 = Given(<<RZ>>)
    /\ res.xout = <<<<RZ>>, <<R1>>, <<H>>, <<Q(1, 4)>>>>
    /\ res.yout = <<<<RZ>>, <<R1>>, <<H>>, <<Q(1, 4)>>>>

SimOps == {"dlsim", "dimpulse", "dstep", "dfreqresp"}

\* the last call was a simulation routine given a continuous system
ContinuousGiven ==
    /\ res.op \in SimOps
    /\ res.sa.k = "obj"
    /\ heap[res.sa.id].fam = "lti"

\* C2: dlsim, dimpulse, dstep and dfreqresp given an lti instance of any
\* representation raise the not-discrete-time error (AttributeError) and
\* return nothing.
ClaimC2 ==
    ContinuousGiven =>
        /\ res.status = "AttributeError"
        /\ res.nret = 0
        /\ res.tout = <<>> /\ res.yout = <<>> /\ res.xout = <<>>
        /\ res.youts = <<>> /\ res.w = <<>> /\ res.h = <<>>

\* dlsim refused a continuous StateSpace system
WitnessC2 ==
    /\ ContinuousGiven
    /\ res.op = "dlsim"
    /\ heap[res.sa.id].rep = "StateSpace"
    /\ res.u.nd = 1 /\ Len(res.u.a) = 2
    /\ res.status = "AttributeError"

\* C3: dlsim returns three values, the third the state trajectory, exactly
\* when the system given was a StateSpace object or a tuple
\* (A, B, C, D, dt); for a TransferFunction or ZerosPolesGain system,
\* object or tuple, it returns (tout, yout) only.
ClaimC3 ==
    res.op = "dlsim" /\ res.status = "ok" =>
        /\ res.nret = (IF StateSpaceForm THEN 3 ELSE 2)
        /\ StateSpaceForm => Len(res.xout) = Len(res.yout)
        /\ ~StateSpaceForm => res.xout = <<>>
        /\ Len(res.yout) = Len(res.tout)

\* dlsim on the tuple (num, den, dt) returned (tout, yout) and no states
WitnessC3 ==
    /\ res.op = "dlsim" /\ res.status = "ok"
    /\ res.sa.k = "tuple" /\ Len(res.sa.args) = 2
    /\ res.nret = 2
    /\ Len(res.yout) = 3
    /\ res.xout = <<>>

(***************************************************************************)
(* Algebra on two systems (specification SpecAlg)                          *)
(***************************************************************************)
\* A = 1/2, B = 1, C = 1, D = 1
AlgA == <<ArrArg(<<<<H>>>>, 2), ArrArg(<<<<R1>>>>, 2), ArrArg(<<<<R1>>>>, 2), ArrArg(<<<<R1>>>>, 2)>>

\* A = [[0]], B = [[1]], C = [[1], [2]], D = [[0], [1]]: one input, two outputs
AlgC ==
    <<ArrArg(<<<<RZ>>>>, 2), ArrArg(<<<<R1>>>>, 2),
      ArrArg(<<<<R1>>, <<RI(2)>>>>, 2), ArrArg(<<<<RZ>>, <<R1>>>>, 2)>>

AlgDts == {DtNone, DtTrue, DtNum(R1), DtNum(RI(2))}

\* the operands: StateSpace systems of three shapes, continuous and
\* discrete, and a TransferFunction
AlgSystems ==
    {Construct(dlti, a, dt).obj : a \in {AlgA, SS2Sys, AlgC}, dt \in AlgDts}
        \cup {Construct(lti, a, DtAbsent).obj : a \in {AlgA, SS2Sys, AlgC}}
        \cup {Construct(dlti, TFSys, DtTrue).obj}

\* the arrays a system is multiplied by
AlgMats == {<<<<RI(2)>>>>, <<<<RZ, R1>>, <<R1, RZ>>>>}

InitAlg == heap \in {<<a, b>> : a, b \in AlgSystems} /\ res = Blank /\ nset = 0

\* the heap and the record of an operation that returned (or raised) r
Operated(base, r) ==
    /\ Len(heap) < 2 + MaxOps
    /\ r.status # "unmodelled"
    /\ heap' = IF r.status = "ok" THEN Append(heap, r.obj) ELSE heap
    /\ res' = [base EXCEPT !.status = r.status,
                           !.out = IF r.status = "ok" THEN Len(heap) + 1 ELSE 0]
    /\ UNCHANGED nset

\* heap[i] * heap[j]
Mul(i, j) ==
    /\ IsInstance(heap[i], StateSpace)
    /\ Operated([Blank EXCEPT !.op = "mul", !.src = i, !.system = <<SysArg(j)>>],
                Star(i, SysArg(j), heap))

\* heap[i] * M for a 2-D array M
MulArray(i, M) ==
    /\ IsInstance(heap[i], StateSpace)
    /\ Operated([Blank EXCEPT !.op = "mul", !.src = i, !.system = <<ArrArg(M, 2)>>],
                Star(i, ArrArg(M, 2), heap))

NextAlg ==
    \/ \E i \in Ids, j \in Ids : Mul(i, j)
    \/ \E i \in Ids, M \in AlgMats : MulArray(i, M)

SpecAlg == InitAlg /\ [][NextAlg]_vars

\* the operands of the last multiplication of two systems
Left == heap[res.src]

Right == heap[res.system[1].id]

\* S1 * S2 was asked for two StateSpace systems of the same family and
\* dt, S1 with as many inputs as S2 has outputs
SeriesCase ==
    /\ res.op = "mul"
    /\ res.system[1].k = "sys"
    /\ Left.rep = "StateSpace" /\ Right.rep = "StateSpace"
    /\ Left.fam = Right.fam
    /\ ~PyNe(Left.dt, Right.dt)
    /\ Left.inputs = Right.outputs

\* the entry (i, j) of [[A1, B1 C2], [0, A2]]
SeriesA(i, j) ==
    IF i <= NRows(Left.A)
    THEN IF j <= NRows(Left.A) THEN Left.A[i][j]
         ELSE Dot(Left.B[i], Column(Right.C, j - NRows(Left.A)))
    ELSE IF j <= NRows(Left.A) THEN RZ
         ELSE Right.A[i - NRows(Left.A)][j - NRows(Left.A)]

\* the entry (i, j) of [B1 D2; B2]
SeriesB(i, j) ==
    IF i <= NRows(Left.A) THEN Dot(Left.B[i], Column(Right.D, j))
    ELSE Right.B[i - NRows(Left.A)][j]

\* the entry (i, j) of [C1, D1 C2]
SeriesC(i, j) ==
    IF j <= NRows(Left.A) THEN Left.C[i][j]
    ELSE Dot(Left.D[i], Column(Right.C, j - NRows(Left.A)))

\* C10: for StateSpace systems S1 (order n1) and S2 (order n2) of the same
\* time domain and sample period, S1 * S2 is the StateSpace system of
\* order n1 + n2 with A = [[A1, B1 C2], [0, A2]], B = [B1 D2; B2],
\* C = [C1, D1 C2], D = D1 D2, the inputs of S2 and the outputs of S1.
ClaimC10 ==
    SeriesCase =>
        /\ res.status = "ok"
        /\ heap[res.out].rep = "StateSpace"
        /\ Shape(heap[res.out].A) = <<NRows(Left.A) + NRows(Right.A), NRows(Left.A) + NRows(Right.A)>>
        /\ Shape(heap[res.out].B) = <<NRows(Left.A) + NRows(Right.A), Right.inputs>>
        /\ Shape(heap[res.out].C) = <<Left.outputs, NRows(Left.A) + NRows(Right.A)>>
        /\ Shape(heap[res.out].D) = <<Left.outputs, Right.inputs>>
        /\ \A i, j \in 1..(NRows(Left.A) + NRows(Right.A)) : heap[res.out].A[i][j] = SeriesA(i, j)
        /\ \A i \in 1..(NRows(Left.A) + NRows(Right.A)), j \in 1..Right.inputs :
              heap[res.out].B[i][j] = SeriesB(i, j)
        /\ \A i \in 1..Left.outputs, j \in 1..(NRows(Left.A) + NRows(Right.A)) :
              heap[res.out].C[i][j] = SeriesC(i, j)
        /\ \A i \in 1..Left.outputs, j \in 1..Right.inputs :
              heap[res.out].D[i][j] = Dot(Left.D[i], Column(Right.D, j))
        /\ heap[res.out].inputs = Right.inputs
        /\ heap[res.out].outputs = Left.outputs

\* (1/2, 1, 1, 1) times the system of two states, two inputs and one
\* output, both with dt 2
WitnessC10 ==
    /\ SeriesCase /\ res.status = "ok"
    /\ Left.fam = "dlti" /\ Left.dt = DtNum(RI(2))
    /\ Left.A = <<<<H>>>> /\ Left.D = <<<<R1>>>>
    /\ NRows(Right.A) = 2 /\ Right.inputs = 2
    /\ heap[res.out].A = <<<<H, R1, RZ>>, <<RZ, RZ, R1>>, <<RZ, H, RZ>>>>
    /\ heap[res.out].B = <<<<RZ, R1>>, <<R1, RZ>>, <<RZ, R1>>>>
    /\ heap[res.out].C = <<<<R1, R1, RZ>>>>
    /\ heap[res.out].D = <<<<RZ, R1>>>>
    /\ heap[res.out].dt = DtNum(RI(2))

(***************************************************************************)
(* The operators of StateSpace: one operation on two systems, or on a      *)
(* system and a scalar or an array                                         *)
(***************************************************************************)
\* the scalars and arrays an operator is applied to: 2, [2], [[2]],
\* [1, 2] and [[1], [2]]
AlgOperands ==
    <<ArrArg(RI(2), 0), ArrArg(<<RI(2)>>, 1), ArrArg(<<<<RI(2)>>>>, 2),
      ArrArg(<<R1, RI(2)>>, 1), ArrArg(<<<<R1>>, <<RI(2)>>>>, 2)>>

\* the operand numbered n: a system of the heap, then AlgOperands
Operand(n) == IF n <= 2 THEN SysArg(n) ELSE AlgOperands[n - 2]

Operands == 1..(2 + Len(AlgOperands))

ArrayOperands == 3..(2 + Len(AlgOperands))

InitOps == heap \in {<<a, b>> : a, b \in AlgSystems} /\ res = Blank /\ nset = 0

\* the heap and the record of the operation op on heap[i] and other that
\* returned (or raised) r
Applied(op, i, other, r) ==
    /\ res = Blank
    /\ IsInstance(heap[i], StateSpace)
    /\ r.status # "unmodelled"
    /\ heap' = IF r.status = "ok" THEN Append(heap, r.obj) ELSE heap
    /\ res' = [Blank EXCEPT !.op = op, !.src = i, !.system = other, !.status = r.status,
                            !.out = IF r.status = "ok" THEN Len(heap) + 1 ELSE 0]
    /\ UNCHANGED nset

\* heap[i] * other
Times(i, n) == Applied("mul", i, <<Operand(n)>>, Star(i, Operand(n), heap))

\* heap[i] + other
Add(i, n) == Applied("add", i, <<Operand(n)>>, Plus(i, Operand(n), heap))

\* heap[i] - other
Sub(i, n) == Applied("sub", i, <<Operand(n)>>, Minus(i, Operand(n), heap))

\* other + heap[i]
RAddOp(i, n) == Applied("radd", i, <<Operand(n)>>, RPlus(i, Operand(n), heap))

\* other - heap[i]
RSubOp(i, n) == Applied("rsub", i, <<Operand(n)>>, RMinus(i, Operand(n), heap))

\* -heap[i]
Neg(i) == Applied("neg", i, <<>>, StateSpace_neg(heap[i]))

\* heap[i] / other
Div(i, n) == Applied("div", i, <<Operand(n)>>, Slash(i, Operand(n), heap))

NextOps ==
    \/ \E i \in Ids, n \in Operands : Times(i, n)
    \/ \E i \in Ids, n \in Operands : Add(i, n)
    \/ \E i \in Ids, n \in Operands : Sub(i, n)
    \/ \E i \in Ids, n \in ArrayOperands : RAddOp(i, n)
    \/ \E i \in Ids, n \in ArrayOperands : RSubOp(i, n)
    \/ \E i \in Ids : Neg(i)
    \/ \E i \in Ids, n \in Operands : Div(i, n)

SpecOps == InitOps /\ [][NextOps]_vars

\* the last operation had an operand, which was a system / no system
OtherIsSystem == res.system # <<>> /\ res.system[1].k = "sys"

OtherIsArray == res.system # <<>> /\ res.system[1].k = "arr"

Other == res.system[1]

\* the operation op was applied to two StateSpace systems
OnSystems(op) ==
    /\ res.op = op
    /\ OtherIsSystem
    /\ Left.rep = "StateSpace" /\ Right.rep = "StateSpace"

\* no system was produced
NothingProduced == res.out = 0 /\ Len(heap) = 2

\* S1 + S2 was asked for two StateSpace systems of the same family and dt
\* and of the same numbers of inputs and outputs
ParallelCase ==
    /\ OnSystems("add")
    /\ Left.fam = Right.fam
    /\ ~PyNe(Left.dt, Right.dt)
    /\ Left.inputs = Right.inputs /\ Left.outputs = Right.outputs

\* the entry (i, j) of block-diagonal(A1, A2)
ParallelA(i, j) ==
    IF i <= NRows(Left.A) /\ j <= NRows(Left.A) THEN Left.A[i][j]
    ELSE IF i > NRows(Left.A) /\ j > NRows(Left.A)
    THEN Right.A[i - NRows(Left.A)][j - NRows(Left.A)]
    ELSE RZ

\* C12: for two StateSpace systems S1 (order n1) and S2 (order n2) of the
\* same time domain and sample period (and of the same numbers of inputs
\* and outputs), S1 + S2 is the StateSpace system of order n1 + n2 with
\* A = block-diagonal(A1, A2), B = [B1; B2], C = [C1, C2], D = D1 + D2.
ClaimC12 ==
    ParallelCase =>
        /\ res.status = "ok"
        /\ heap[res.out].rep = "StateSpace"
        /\ Shape(heap[res.out].A) = <<NRows(Left.A) + NRows(Right.A), NRows(Left.A) + NRows(Right.A)>>
        /\ Shape(heap[res.out].B) = <<NRows(Left.A) + NRows(Right.A), Left.inputs>>
        /\ Shape(heap[res.out].C) = <<Left.outputs, NRows(Left.A) + NRows(Right.A)>>
        /\ Shape(heap[res.out].D) = <<Left.outputs, Left.inputs>>
        /\ \A i, j \in 1..(NRows(Left.A) + NRows(Right.A)) : heap[res.out].A[i][j] = ParallelA(i, j)
        /\ \A i \in 1..(NRows(Left.A) + NRows(Right.A)), j \in 1..Left.inputs :
              heap[res.out].B[i][j] = IF i <= NRows(Left.A) THEN Left.B[i][j]
                                      ELSE Right.B[i - NRows(Left.A)][j]
        /\ \A i \in 1..Left.outputs, j \in 1..(NRows(Left.A) + NRows(Right.A)) :
              heap[res.out].C[i][j] = IF j <= NRows(Left.A) THEN Left.C[i][j]
                                      ELSE Right.C[i][j - NRows(Left.A)]
        /\ \A i \in 1..Left.outputs, j \in 1..Left.inputs :
              heap[res.out].D[i][j] = RAdd(Left.D[i][j], Right.D[i][j])

\* (1/2, 1, 1, 1) plus the system of one state and two outputs fails on
\* the shapes; (1/2, 1, 1, 1) plus itself, both with dt 2, is the witness
WitnessC12 ==
    /\ ParallelCase /\ res.status = "ok"
    /\ Left.fam = "dlti" /\ Left.dt = DtNum(RI(2))
    /\ heap[res.out].A = <<<<H, RZ>>, <<RZ, H>>>>
    /\ heap[res.out].B = <<<<R1>>, <<R1>>>>
    /\ heap[res.out].C = <<<<R1, R1>>>>
    /\ heap[res.out].D = <<<<RI(2)>>>>

\* one operand continuous and the other discrete, or both discrete with
\* sample periods that are not the same value (True is the unspecified one)
TimeDomainsDiffer ==
    \/ Left.fam # Right.fam
    \/ Left.fam = "dlti" /\ Left.dt # Right.dt

\* a discrete system holds a sample period (dt is not None)
HasPeriod(o) == o.fam = "dlti" => o.dt.k # "None"

\* C13: each of *, + and - on two StateSpace systems fails with the
\* incompatible-time-domain error (TypeError) and produces no system when
\* one operand is continuous and the other discrete, and when both are
\* discrete with different sample periods, a specified period against the
\* unspecified one (True) included.
ClaimC13 ==
    /\ (\E op \in {"mul", "add", "sub"} : OnSystems(op))
    /\ HasPeriod(Left) /\ HasPeriod(Right)
    /\ TimeDomainsDiffer
    => res.status = "TypeError" /\ NothingProduced

\* The part of C13 that the code keeps, for discrete operands that hold a
\* sample period: the error is raised when the families differ or the
\* sample periods compare unequal in Python, where True == 1.
TimeDomainChecked ==
    /\ (\E op \in {"mul", "add", "sub"} : OnSystems(op))
    /\ HasPeriod(Left) /\ HasPeriod(Right)
    /\ (Left.fam # Right.fam \/ PyNe(Left.dt, Right.dt))
    => res.status = "TypeError" /\ NothingProduced

\* the shape of cupy.atleast_2d of a scalar or an array
OperandShape(o) ==
    CASE o.nd = 0 -> <<1, 1>>
      [] o.nd = 1 -> <<1, Len(o.a)>>
      [] OTHER -> Shape(o.a)

\* the entry (i, j) of cupy.atleast_2d of a scalar or an array
OperandEntry(o, i, j) ==
    CASE o.nd = 0 -> o.a
      [] o.nd = 1 -> o.a[j]
      [] OTHER -> o.a[i][j]

\* S + other was asked for a StateSpace S and a StateSpace other of the
\* same family and dt, or a scalar or an array
AddOfSystems == OnSystems("add") /\ Left.fam = Right.fam /\ ~PyNe(Left.dt, Right.dt)

AddOfArray == res.op = "add" /\ OtherIsArray

\* C14: S + other fails with the incompatible-dimensions error (ValueError)
\* when the shape of the feedthrough of other differs from that of S.D, for
\* a StateSpace other (of the time domain of S) and for a scalar or an
\* array (made 2-D); when the shapes are the same, a scalar or an array
\* changes the feedthrough only: (A, B, C, D + other).  Nothing is
\* broadcast.
ClaimC14 ==
    /\ AddOfSystems /\ Shape(Left.D) # Shape(Right.D)
       => res.status = "ValueError" /\ NothingProduced
    /\ AddOfArray /\ Shape(Left.D) # OperandShape(Other)
       => res.status = "ValueError" /\ NothingProduced
    /\ AddOfArray /\ Shape(Left.D) = OperandShape(Other)
       => /\ res.status = "ok"
          /\ heap[res.out].A = Left.A /\ heap[res.out].B = Left.B /\ heap[res.out].C = Left.C
          /\ Shape(heap[res.out].D) = Shape(Left.D)
          /\ \A i \in 1..NRows(Left.D), j \in 1..NCols(Left.D) :
                heap[res.out].D[i][j] = RAdd(Left.D[i][j], OperandEntry(Other, i, j))

\* the scalar 2 added to a system with D of shape (2, 1) was refused
WitnessC14 ==
    /\ AddOfArray /\ Other.nd = 0
    /\ Shape(Left.D) = <<2, 1>>
    /\ res.status = "ValueError"

\* [[1], [2]] added to a system with D = [[0], [1]]
WitnessC14Added ==
    /\ AddOfArray /\ Other.nd = 2
    /\ Shape(Left.D) = <<2, 1>>
    /\ res.status = "ok"
    /\ heap[res.out].D = <<<<R1>>, <<RI(3)>>>>

\* systems with D of shapes (2, 1) and (1, 1) were refused
WitnessC14Systems ==
    /\ AddOfSystems
    /\ Shape(Left.D) = <<2, 1>> /\ Shape(Right.D) = <<1, 1>>
    /\ res.status = "ValueError"

\* -S was asked
Negated == res.op = "neg"

\* the matrices of -S: (A, B, -C, -D)
NegatedMatrices(n, o) ==
    /\ n.rep = "StateSpace"
    /\ n.A = o.A /\ n.B = o.B
    /\ n.C = MatNeg(o.C) /\ n.D = MatNeg(o.D)

\* C15: -S is a new system (A, B, -C, -D) of the time domain and sample
\* period of S; the negation of -S has the matrices of S.
ClaimC15 ==
    Negated =>
        /\ res.status = "ok"
        /\ res.out # res.src
        /\ NegatedMatrices(heap[res.out], Left)
        /\ heap[res.out].fam = Left.fam /\ heap[res.out].dt = Left.dt
        /\ StateSpace_neg(heap[res.out]).status = "ok"
        /\ NegatedMatrices(StateSpace_neg(heap[res.out]).obj, heap[res.out])
        /\ StateSpace_neg(heap[res.out]).obj.C = Left.C
        /\ StateSpace_neg(heap[res.out]).obj.D = Left.D

\* The part of C15 that the code keeps: the matrices always, the time
\* domain and the sample period for a system whose dt C7 allows.
NegationOfValid ==
    Negated =>
        /\ res.status = "ok"
        /\ res.out # res.src
        /\ NegatedMatrices(heap[res.out], Left)
        /\ StateSpace_neg(heap[res.out]).status = "ok"
        /\ StateSpace_neg(heap[res.out]).obj.C = Left.C
        /\ StateSpace_neg(heap[res.out]).obj.D = Left.D
        /\ Left.fam = "dlti" => heap[res.out].dt = Left.dt
        /\ Left.dt.k # "None" => heap[res.out].fam = Left.fam

\* r and the last operation have the same outcome: the same error, or
\* systems with the same attributes
SameOutcome(r) ==
    /\ res.status = r.status
    /\ res.status = "ok" => heap[res.out] = r.obj

\* the two operands and the negation of heap[i]
WithNegated(i) == <<heap[1], heap[2], StateSpace_neg(heap[i]).obj>>

\* C16: for a StateSpace S and an operand o (a StateSpace system, a scalar
\* or an array), S - o is S + (-o), o - S is (-S) + o and o + S is S + o,
\* errors included.
ClaimC16 ==
    /\ res.op = "sub" /\ OtherIsArray => SameOutcome(Plus(res.src, ArrNeg(Other), heap))
    /\ OnSystems("sub") => SameOutcome(Plus(res.src, SysArg(3), WithNegated(Other.id)))
    /\ res.op = "rsub" => SameOutcome(Plus(3, Other, WithNegated(res.src)))
    /\ res.op = "radd" => SameOutcome(Plus(res.src, Other, heap))

\* S - S for (1/2, 1, 1, 1) with dt 2: the difference has D = 0
WitnessC16 ==
    /\ OnSystems("sub") /\ res.status = "ok"
    /\ Left.fam = "dlti" /\ Left.dt = DtNum(RI(2))
    /\ Left.D = <<<<R1>>>> /\ Right.D = <<<<R1>>>>
    /\ heap[res.out].C = <<<<R1, RNeg(R1)>>>>
    /\ heap[res.out].D = <<<<RZ>>>>

\* 2 - S for (1/2, 1, 1, 1): C = -1, D = 1
WitnessC16Reflected ==
    /\ res.op = "rsub" /\ Other.nd = 0 /\ res.status = "ok"
    /\ Left.D = <<<<R1>>>>
    /\ heap[res.out].C = <<<<RNeg(R1)>>>>
    /\ heap[res.out].D = <<<<R1>>>>

\* S / other was asked
Divided == res.op = "div" /\ Left.rep = "StateSpace"

\* C17: S / k for a 0-dimensional k is S * (1/k); S / other fails with the
\* ambiguous-operation error (ValueError) for an array of one or more
\* dimensions and is not defined (TypeError) for a StateSpace other; where
\* it fails no system is produced.
ClaimC17 ==
    /\ Divided /\ OtherIsArray /\ Other.nd = 0
       => /\ res.status = "ok"
          /\ SameOutcome(Star(res.src, ArrArg(RDiv(R1, Other.a), 0), heap))
          /\ heap[res.out].A = Left.A /\ heap[res.out].C = Left.C
          /\ heap[res.out].B = MatScale(Left.B, RDiv(R1, Other.a))
          /\ heap[res.out].D = MatScale(Left.D, RDiv(R1, Other.a))
    /\ Divided /\ OtherIsArray /\ Other.nd > 0
       => res.status = "ValueError" /\ NothingProduced
    /\ Divided /\ OtherIsSystem
       => res.status = "TypeError" /\ NothingProduced

\* The part of C17 that the code keeps: division is the multiplication by
\* the reciprocal, arrays and systems are refused.
DivisionRefusals ==
    /\ Divided /\ OtherIsArray /\ Other.nd = 0
       => SameOutcome(Star(res.src, ArrArg(RDiv(R1, Other.a), 0), heap))
    /\ Divided /\ OtherIsArray /\ Other.nd > 0
       => res.status = "ValueError" /\ NothingProduced
    /\ Divided /\ OtherIsSystem
       => res.status = "TypeError" /\ NothingProduced

\* S * k was asked for a scalar k, or for a matrix k with as many rows as
\* S has inputs
ScaledCase ==
    /\ res.op = "mul" /\ OtherIsArray
    /\ Other.nd = 0 \/ (Other.nd = 2 /\ NRows(Other.a) = Left.inputs)

\* the entry (i, j) of X k
ScaledEntry(X, k, i, j) ==
    IF k.nd = 0 THEN RMul(X[i][j], k.a) ELSE Dot(X[i], Column(k.a, j))

\* C18: S * k for a k that is no system, a scalar or a matrix, succeeds
\* and scales the input side only: (A, B k, C, D k).
ClaimC18 ==
    ScaledCase =>
        /\ res.status = "ok"
        /\ heap[res.out].A = Left.A /\ heap[res.out].C = Left.C
        /\ \A i \in 1..NRows(Left.B), j \in 1..OperandShape(Other)[2] :
              heap[res.out].B[i][j] = ScaledEntry(Left.B, Other, i, j)
        /\ \A i \in 1..NRows(Left.D), j \in 1..OperandShape(Other)[2] :
              heap[res.out].D[i][j] = ScaledEntry(Left.D, Other, i, j)

\* The part of C18 that the code keeps: the product with a matrix.
MatrixScales ==
    ScaledCase /\ Other.nd = 2 =>
        /\ res.status = "ok"
        /\ heap[res.out].A = Left.A /\ heap[res.out].C = Left.C
        /\ \A i \in 1..NRows(Left.B), j \in 1..NCols(Other.a) :
              heap[res.out].B[i][j] = ScaledEntry(Left.B, Other, i, j)
        /\ \A i \in 1..NRows(Left.D), j \in 1..NCols(Other.a) :
              heap[res.out].D[i][j] = ScaledEntry(Left.D, Other, i, j)

(***************************************************************************)
(* Laws of the algebra: three systems, and one comparison of two ways to   *)
(* the same system                                                         *)
(***************************************************************************)
\* A = [[0, 1], [1/2, 0]], B = [[0], [1]], C = [[1, 0]], D = [[1]]
SS2Siso ==
    <<ArrArg(<<<<RZ, R1>>, <<H, RZ>>>>, 2), ArrArg(<<<<RZ>>, <<R1>>>>, 2),
      ArrArg(<<<<R1, RZ>>>>, 2), ArrArg(<<<<R1>>>>, 2)>>

\* the operands: StateSpace systems of one and two states, inputs and
\* outputs, discrete with dt 2 and continuous
LawSystems ==
    {Construct(dlti, a, DtNum(RI(2))).obj : a \in {AlgA, SSSys, SS2Siso, SS2Sys, AlgC}}
        \cup {Construct(lti, a, DtAbsent).obj : a \in {AlgA, SSSys, SS2Siso, SS2Sys, AlgC}}

\* two systems to add or to connect and simulate, three to connect
InitLaw ==
    /\ heap \in {<<a, b>> : a, b \in LawSystems} \cup {<<a, b, c>> : a, b, c \in LawSystems}
    /\ res = Blank
    /\ nset = 0

\* the step numbered step of the comparison op is the first one, or follows
\* the steps before it, which all succeeded
InOrder(op, step) ==
    IF step = 1 THEN res = Blank
    ELSE res.op = op /\ res.n = step - 1 /\ res.status = "ok"

\* a step whose outcome r is a system: it gets the next identity
Produced(base, op, step, r) ==
    /\ r.status # "unmodelled"
    /\ heap' = IF r.status = "ok" THEN Append(heap, r.obj) ELSE heap
    /\ res' = [base EXCEPT !.op = op, !.n = step, !.status = r.status]
    /\ UNCHANGED nset

\* x = (heap[1] * heap[2]) * heap[3], y = heap[1] * (heap[2] * heap[3]),
\* x.to_tf(), y.to_tf(): heap[5], heap[7], heap[8], heap[9]
Associate(step) ==
    /\ InOrder("assoc", step)
    /\ Len(heap) = 2 + step
    /\ Produced(res, "assoc", step,
                CASE step = 1 -> Star(1, SysArg(2), heap)
                  [] step = 2 -> Star(4, SysArg(3), heap)
                  [] step = 3 -> Star(2, SysArg(3), heap)
                  [] step = 4 -> Star(1, SysArg(6), heap)
                  [] step = 5 -> to_tf(heap[5])
                  [] OTHER -> to_tf(heap[7]))

\* x = heap[1] + heap[2], y = heap[2] + heap[1], x.to_tf(), y.to_tf():
\* heap[3], heap[4], heap[5], heap[6]
Commute(step) ==
    /\ InOrder("commute", step)
    /\ Len(heap) = 1 + step
    /\ Produced(res, "commute", step,
                CASE step = 1 -> Plus(1, SysArg(2), heap)
                  [] step = 2 -> Plus(2, SysArg(1), heap)
                  [] step = 3 -> to_tf(heap[3])
                  [] OTHER -> to_tf(heap[4]))

\* p = heap[1] * heap[2], to be driven by u: heap[3]
Series(u) ==
    /\ InOrder("series", 1)
    /\ Len(heap) = 2
    /\ Produced([res EXCEPT !.u = u], "series", 1, Star(1, SysArg(2), heap))

\* a step whose outcome r is a response: youts gets its output sequence
Responded(step, r) ==
    /\ r.status # "unmodelled"
    /\ res' = [res EXCEPT !.n = step, !.status = r.status,
                          !.youts = IF r.status = "ok" THEN Append(@, r.yout) ELSE @]
    /\ UNCHANGED <<heap, nset>>

\* dlsim(p, u), dlsim(heap[2], u) and dlsim(heap[1], the output of
\* heap[2]): youts[1], youts[2], youts[3]
Simulate(step) ==
    /\ step > 1
    /\ InOrder("series", step)
    /\ Responded(step,
                 CASE step = 2 -> dlsim(ObjSys(3), heap, res.u, NoneArg, NoneArg)
                   [] step = 3 -> dlsim(ObjSys(2), heap, res.u, NoneArg, NoneArg)
                   [] OTHER -> dlsim(ObjSys(1), heap, ArrArg(res.youts[2], 2), NoneArg, NoneArg))

NextLaw ==
    \/ \E step \in 1..6 : Associate(step)
    \/ \E step \in 1..4 : Commute(step)
    \/ \E u \in SimU1 : Series(u)
    \/ \E u \in SimU2 : Series(u)
    \/ \E step \in 2..4 : Simulate(step)

SpecLaw == InitLaw /\ [][NextLaw]_vars

\* the number of samples and of columns of the input of the series steps
CascadeSamples == Len(res.u.a)

CascadeColumns == IF res.u.nd = 1 THEN 1 ELSE NCols(res.u.a)

\* heap[1] * heap[2] was formed from discrete systems and is to be driven
\* by an input of one sample or more, a column for each input of heap[2]
CascadeCase ==
    /\ res.op = "series"
    /\ Len(heap) = 3
    /\ heap[1].fam = "dlti" /\ heap[2].fam = "dlti"
    /\ CascadeSamples >= 1
    /\ CascadeColumns = heap[2].inputs

\* C11: for discrete systems S1, S2 of one sample period and an input u,
\* dlsim(S1 * S2, u) succeeds, as do dlsim(S2, u) and dlsim(S1, its
\* output), and the first and the last return the same output sequence.
ClaimC11 ==
    CascadeCase =>
        /\ res.status = "ok"
        /\ res.n = 4 => res.youts[1] = res.youts[3]

\* S1 = (1/2, 1, 1, 1) times S2 = (1/2, 1, 1, 0), driven by 1, 0, 0
WitnessC11 ==
    /\ CascadeCase /\ res.n = 4 /\ res.status = "ok"
    /\ heap[1].A = <<<<H>>>> /\ heap[1].D = <<<<R1>>>>
    /\ heap[2].A = <<<<H>>>> /\ heap[2].D = <<<<RZ>>>>
    /\ res.u.a = <<R1, RZ, RZ>>
    /\ res.youts[3] = <<<<RZ>>, <<R1>>, <<Q(3, 2)>>>>

\* the series steps ran to the end on a right operand of two inputs and a
\* left operand of two outputs
WitnessC11Wide ==
    /\ CascadeCase /\ res.n = 4 /\ res.status = "ok"
    /\ heap[2].inputs = 2 /\ heap[1].outputs = 2
    /\ \E k \in 1..Len(res.youts[3]) : res.youts[3][k] # <<RZ, RZ>>

\* the three systems of the comparison have one input and one output
AssocSiso ==
    /\ res.op = "assoc"
    /\ \A i \in 1..3 : heap[i].inputs = 1 /\ heap[i].outputs = 1

\* C19: for SISO systems A, B, C of one time domain and sample period,
\* (A * B) * C and A * (B * C) are formed and their to_tf() have the same
\* numerator, denominator and sample period.
ClaimC19 ==
    AssocSiso /\ heap[1].fam = heap[2].fam /\ heap[2].fam = heap[3].fam =>
        /\ res.status = "ok"
        /\ res.n = 6 =>
              /\ heap[8].num = heap[9].num
              /\ heap[8].den = heap[9].den
              /\ heap[8].dt = heap[9].dt
              /\ heap[8].fam = heap[9].fam

\* the comparison ran to the end on three different SISO systems, one of
\* them of two states: the products have four states
WitnessC19 ==
    /\ AssocSiso /\ res.n = 6 /\ res.status = "ok"
    /\ heap[1] # heap[2] /\ heap[2] # heap[3] /\ heap[1] # heap[3]
    /\ NRows(heap[4].A) # NRows(heap[6].A)
    /\ Len(heap[8].den) = 5

\* the two systems of the comparison are of one time domain and of the same
\* numbers of inputs and outputs
CommuteCase ==
    /\ res.op = "commute"
    /\ heap[1].fam = heap[2].fam
    /\ heap[1].inputs = heap[2].inputs /\ heap[1].outputs = heap[2].outputs

\* C20: for systems A and B of one time domain and sample period and of
\* the same shape, A + B and B + A are formed and their to_tf() have the
\* same numerator and denominator, although their states are ordered
\* differently.
ClaimC20 ==
    CommuteCase =>
        /\ res.status = "ok"
        /\ res.n = 4 =>
              /\ heap[5].num = heap[6].num
              /\ heap[5].den = heap[6].den
              /\ heap[5].dt = heap[6].dt
              /\ heap[5].fam = heap[6].fam

\* the comparison ran to the end on two different systems, and the two sums
\* differ as state-space systems
WitnessC20 ==
    /\ CommuteCase /\ res.n = 4 /\ res.status = "ok"
    /\ heap[3].A # heap[4].A
    /\ heap[1].D # heap[2].D

(***************************************************************************)
(* Impulse and step responses, n given or left out (specification          *)
(* SpecResp).  The systems have coefficients 0, 1 and -1 and bounded or    *)
(* linearly growing responses, so that DefaultSamples samples are exact.   *)
(***************************************************************************)
\* A = 1, B = 1, C = 1, D = 0: a summing system
RespSum == <<ArrArg(<<<<R1>>>>, 2), ArrArg(<<<<R1>>>>, 2), ArrArg(<<<<R1>>>>, 2), ArrArg(<<<<RZ>>>>, 2)>>

\* A = [[0, 1], [-1, 0]], B = I, C = [[1, 0]], D = [[0, 1]]: two inputs
RespTurn ==
    <<ArrArg(<<<<RZ, R1>>, <<RNeg(R1), RZ>>>>, 2), ArrArg(<<<<R1, RZ>>, <<RZ, R1>>>>, 2),
      ArrArg(<<<<R1, RZ>>>>, 2), ArrArg(<<<<RZ, R1>>>>, 2)>>

\* num = [1, 1], den = [1, 1, 0]
RespTf == <<ArrArg(<<R1, R1>>, 1), ArrArg(<<R1, R1, RZ>>, 1)>>

RespArgs == {RespSum, RespTurn, AlgC, RespTf}

RespDts == {DtTrue, DtNum(RI(2)), DtNone}

RespSystems ==
    {Construct(dlti, a, dt).obj : a \in RespArgs, dt \in RespDts}
        \cup {Construct(lti, RespSum, DtAbsent).obj}

RespT == {NoneArg, Given(<<RZ, R1, RI(2)>>), Given(<<RZ, RI(2), RI(5)>>)}

RespX0 == {NoneArg, Given(<<RZ>>), Given(<<R1>>)}

RespN == {NoSamples} \cup {Given(n) : n \in 0..MaxN}

InitResp == heap \in {<<o>> : o \in RespSystems} /\ res = Blank /\ nset = 0

\* dimpulse(system, x0=x0, t=t, n=n)
Impulse(sa, x0, t, n) ==
    Simulated([Blank EXCEPT !.op = "dimpulse", !.sa = sa, !.x0 = x0, !.t = t, !.nopt = n],
              dimpulse(sa, heap, x0, t, n))

\* dstep(system, x0=x0, t=t, n=n)
Step(sa, x0, t, n) ==
    Simulated([Blank EXCEPT !.op = "dstep", !.sa = sa, !.x0 = x0, !.t = t, !.nopt = n],
              dstep(sa, heap, x0, t, n))

NextResp ==
    \/ \E sa \in SysForms, x0 \in RespX0, t \in RespT, n \in RespN : Impulse(sa, x0, t, n)
    \/ \E sa \in SysForms, x0 \in RespX0, t \in RespT, n \in RespN : Step(sa, x0, t, n)

SpecResp == InitResp /\ [][NextResp]_vars

\* the system of the last call as dimpulse and dstep take it, its number of
\* inputs, and the number of samples asked for
Responding == ResponseSystem(res.sa, heap).obj

Channels == Responding.inputs

Samples == IF res.nopt.given THEN res.nopt.a ELSE 100

\* an input of len samples that is 1 at sample 0 on channel i, 0 elsewhere
UnitAt(len, i) ==
    [r \in 1..len |-> [c \in 1..Channels |-> IF r = 1 /\ c = i THEN R1 ELSE RZ]]

\* the outputs dlsim returns for the unit impulse on channel i from x0:
\* over Samples samples when t was left out, at the times t otherwise
ImpulseOutput(i) ==
    IF res.t.given
    THEN dlsim(ObjSys(1), <<Responding>>, ArrArg(UnitAt(Len(res.t.a), i), 2), res.t, res.x0).yout
    ELSE dlsim(ObjSys(1), <<Responding>>, ArrArg(UnitAt(Samples, i), 2), NoneArg, res.x0).yout

\* dimpulse was called on a discrete system that holds a sample period, t
\* left out, two samples or more, x0 left out or one value
ImpulseCase ==
    /\ res.op = "dimpulse"
    /\ res.sa.k = "obj" => heap[res.sa.id].fam = "dlti"
    /\ GivenDt.k # "None"
    /\ ~res.t.given
    /\ Samples >= 2

WitnessC21Asked ==
    /\ ImpulseCase /\ res.status = "ok"
    /\ res.nopt = Given(3) /\ res.x0 = Given(<<R1>>)
    /\ Channels = 1 /\ Len(res.youts[1]) = 3

(***************************************************************************)
(* C22: the impulse response is the first difference of the step response  *)
(***************************************************************************)
\* the initial state is zero: x0 left out, or given as zeros
ZeroState == ~res.x0.given \/ \A k \in 1..Len(res.x0.a) : res.x0.a[k] = RZ

\* dstep called with the arguments of the dimpulse call of this state
StepOfSame == dstep(res.sa, heap, res.x0, res.t, res.nopt)

\* an input of len samples that is 1 at every sample on channel i
OnesAt(len, i) ==
    [r \in 1..len |-> [c \in 1..Channels |-> IF c = i THEN R1 ELSE RZ]]

\* y[k] - y[k-1], with y[-1] taken as 0
FirstDifference(y) ==
    [k \in 1..Len(y) |-> IF k = 1 THEN y[1] ELSE VecSub(y[k], y[k - 1])]

DifferenceCase ==
    /\ res.op = "dimpulse" /\ res.status = "ok"
    /\ ~res.t.given
    /\ ZeroState

\* the step response st has the impulse response as its first difference
DifferenceOf(st) ==
    /\ st.status = "ok"
    /\ Len(st.youts) = Len(res.youts)
    /\ st.tout = res.tout
    /\ \A i \in 1..Len(res.youts) : res.youts[i] = FirstDifference(st.youts[i])

\* C22: with zero initial state, t left out and the same n, the dimpulse
\* output at every sample k is the dstep output at k minus the dstep output
\* at k-1 (0 before the first sample); dstep is dimpulse with the input 1 at
\* every sample of the channel.
ClaimC22 ==
    /\ DifferenceCase => DifferenceOf(StepOfSame)
    /\ res.op = "dstep" /\ res.status = "ok" /\ ~res.t.given =>
          /\ Len(res.youts) = Channels
          /\ \A i \in 1..Channels :
                res.youts[i] = dlsim(ObjSys(1), <<Responding>>,
                                     ArrArg(OnesAt(Samples, i), 2), NoneArg, res.x0).yout

\* three samples of the summing system: impulse 0, 1, 1 and step 0, 1, 2
WitnessC22 ==
    /\ DifferenceCase
    /\ res.nopt = Given(3)
    /\ res.youts = <<<< <<RZ>>, <<R1>>, <<R1>> >>>>
    /\ StepOfSame.youts = <<<< <<RZ>>, <<R1>>, <<RI(2)>> >>>>

\* the two channels of the two-input system over the 100 samples by default
WitnessC22Wide ==
    /\ DifferenceCase
    /\ ~res.nopt.given /\ Len(res.youts) = 2 /\ Len(res.youts[2]) = 100
    /\ StepOfSame.youts[2][3] # res.youts[2][3]

(***************************************************************************)
(* C23: dfreqresp and SISO systems (specification SpecSim)                 *)
(***************************************************************************)
\* the discrete system dfreqresp was given: the object, or dlti(*args, dt)
FreqGiven == AsDlti(res.sa, heap)

\* the system dfreqresp evaluates: a StateSpace system after _as_tf()
FreqConverted ==
    IF FreqGiven.status = "ok" /\ IsInstance(FreqGiven.obj, StateSpace)
    THEN _as("TransferFunction", FreqGiven.obj)
    ELSE FreqGiven

\* dfreqresp was called with a discrete system
FreqCalled ==
    /\ res.op = "dfreqresp"
    /\ res.sa.k = "obj" => heap[res.sa.id].fam = "dlti"
    /\ FreqGiven.status = "ok"

\* the frequencies of the call
FreqAt == IF res.win.given THEN res.win.a ELSE FreqGrid(res.n, res.whole)

\* a response was returned: it is the one of the form the system has
\* after the conversion
FreqOfForm ==
    FreqCalled /\ res.status = "ok" =>
        /\ res.nret = 2 /\ res.w = FreqAt
        /\ FreqGiven.obj.rep = "StateSpace" =>
              /\ FreqConverted.obj.rep = "TransferFunction"
              /\ res.h = freqz(_z_to_zinv(FreqConverted.obj.num, FreqConverted.obj.den).num,
                               _z_to_zinv(FreqConverted.obj.num, FreqConverted.obj.den).den,
                               FreqAt)
        /\ FreqGiven.obj.rep = "ZerosPolesGain" =>
              res.h = freqz_zpk(FreqGiven.obj.zeros, FreqGiven.obj.poles,
                                FreqGiven.obj.gain, FreqAt)

\* the 'Unknown system type' branch is not taken
KnownType ==
    FreqCalled /\ FreqConverted.status = "ok" =>
        FreqConverted.obj.rep \in {"TransferFunction", "ZerosPolesGain"}

\* the system given is not SISO
NotSiso == FreqGiven.obj.inputs # 1 \/ FreqGiven.obj.outputs # 1

\* C23: dfreqresp given a discrete system whose number of inputs or of
\* outputs is not 1 raises the unsupported-system error (ValueError) and
\* returns no response; a StateSpace system is evaluated as the
\* TransferFunction it converts to, a ZerosPolesGain system in its own
\* form, and the 'Unknown system type' failure does not occur.
ClaimC23 ==
    /\ FreqCalled /\ NotSiso =>
          /\ res.status = "ValueError"
          /\ res.nret = 0 /\ res.w = <<>> /\ res.h = <<>>
    /\ FreqOfForm
    /\ KnownType

\* what the code does check: the system after the conversion is SISO
\* whenever a response is returned
SisoAfterConversion ==
    FreqCalled /\ res.status = "ok" =>
        FreqConverted.obj.inputs = 1 /\ FreqConverted.obj.outputs = 1

\* the two-input, one-output StateSpace system with dt = 1 was given a
\* response: the one of its first input
WideAnswered ==
    /\ FreqCalled /\ NotSiso
    /\ res.sa.k = "obj" /\ heap[1].rep = "StateSpace" /\ heap[1].dt = DtNum(R1)
    /\ heap[1].inputs = 2 /\ heap[1].outputs = 1
    /\ res.win = Given(<<RZ>>)
    /\ res.status = "ok" /\ Len(res.h) = 1

(***************************************************************************)
(* Discretization: to_discrete on one system (specification SpecDisc)      *)
(***************************************************************************)
\* the sample periods asked for
DiscDts == {DtNum(R1), DtNum(H), DtNum(RI(2)), DtNum(Q(1, 4)), DtNum(RI(3))}

InitDisc == heap \in {<<o>> : o \in SimSystems} /\ res = Blank /\ nset = 0

\* heap[i].to_discrete(dt)
ToDiscrete(i, dt) ==
    /\ Returned([Blank EXCEPT !.op = "to_discrete", !.src = i, !.kw = dt],
                to_discrete(heap[i], dt))
    /\ UNCHANGED nset

NextDisc == \E i \in 1..Len(heap), dt \in DiscDts : ToDiscrete(i, dt)

SpecDisc == InitDisc /\ [][NextDisc]_vars

\* to_discrete was called on a continuous system of one of the three kinds
DiscretizeCase ==
    /\ res.op = "to_discrete"
    /\ heap[res.src].fam = "lti"
    /\ heap[res.src].rep \in Reps

\* to_discrete was called on a discrete system
DiscreteCase ==
    /\ res.op = "to_discrete"
    /\ heap[res.src].fam = "dlti"

\* a discrete system is not discretized: the call fails and makes nothing
DiscreteRefused ==
    DiscreteCase =>
        /\ res.status = "AttributeError"
        /\ res.out = 0 /\ Len(heap) = 1

\* C24: to_discrete(dt) on a continuous TransferFunction, ZerosPolesGain
\* or StateSpace system returns a discrete system of the same
\* representation whose sample period is the dt passed in; on a discrete
\* system the call fails, so that no system is discretized twice.
ClaimC24 ==
    /\ DiscretizeCase =>
          /\ res.status = "ok"
          /\ res.out \in 1..Len(heap) /\ res.out # res.src
          /\ heap[res.out].rep = heap[res.src].rep
          /\ heap[res.out].fam = "dlti"
          /\ heap[res.out].dt = res.kw
    /\ DiscreteRefused

\* the continuous StateSpace system asked for dt = 1/2 got NameError
Undiscretized ==
    /\ DiscretizeCase
    /\ heap[res.src].rep = "StateSpace" /\ res.kw = DtNum(H)
    /\ res.status = "NameError" /\ Len(heap) = 1

(***************************************************************************)
(* C25, C26: the samples and the time grid of dlsim (specification SpecSim)*)
(***************************************************************************)
\* dlsim returned
DlsimDone == res.op = "dlsim" /\ res.status = "ok"

\* floor(t[-1] / dt) + 1
SamplesUpTo(t, dt) == RFloor(RDiv(t[Len(t)], dt.v)) + 1

\* the number of samples the claim gives
SamplesClaimed ==
    IF res.t.given THEN SamplesUpTo(res.t.a, GivenDt) ELSE Len(GivenU)

\* C25: the number of samples dlsim returns (the length of t_out, y and,
\* when returned, x) is len(u) when t is omitted and floor(t[-1] / dt) + 1
\* when t is given, whatever the length of u.
ClaimC25 ==
    DlsimDone =>
        /\ Len(res.tout) = SamplesClaimed
        /\ Len(res.yout) = SamplesClaimed
        /\ res.nret = 3 => Len(res.xout) = SamplesClaimed

\* t = [0, 3/2] with dt = 1/2 and two input samples: four samples out
WitnessC25 ==
    /\ DlsimDone
    /\ res.t = Given(<<RZ, Q(3, 2)>>) /\ GivenDt = DtNum(H)
    /\ Len(GivenU) = 2
    /\ Len(res.tout) = 4 /\ Len(res.yout) = 4
    /\ res.nret = 3 /\ Len(res.xout) = 4

\* t omitted and four input samples: four samples out
WitnessC25Omitted ==
    /\ DlsimDone
    /\ ~res.t.given /\ Len(GivenU) = 4
    /\ Len(res.tout) = 4 /\ Len(res.yout) = 4

\* t = [0, 1, 2] with dt = 1/2 and three input samples: five samples out
WitnessC25Longer ==
    /\ DlsimDone
    /\ res.t = Given(<<RZ, R1, RI(2)>>) /\ GivenDt = DtNum(H)
    /\ Len(GivenU) = 3 /\ Len(res.yout) = 5

\* consecutive points of the grid g are d apart
SpacedBy(g, d) == \A k \in 1..(Len(g) - 1) : RSub(g[k + 1], g[k]) = d

\* C26: t_out of dlsim starts at 0, ends at (out_samples - 1) * dt and its
\* consecutive points are exactly dt apart, with t omitted and with t given
\* (a t whose last value is no multiple of dt included).
ClaimC26 ==
    DlsimDone =>
        /\ res.tout[1] = RZ
        /\ res.tout[Len(res.tout)] = RMul(RI(Len(res.tout) - 1), GivenDt.v)
        /\ SpacedBy(res.tout, GivenDt.v)

\* t is omitted, or its last value is a multiple of dt
Aligned ==
    \/ ~res.t.given
    \/ RMul(RI(SamplesUpTo(res.t.a, GivenDt) - 1), GivenDt.v) = res.t.a[Len(res.t.a)]

\* what the code does: the grid runs evenly from 0 to stoptime, which is
\* (out_samples - 1) * dt only when t is omitted or ends on a multiple of dt
GridToStoptime ==
    DlsimDone =>
        /\ res.tout[1] = RZ
        /\ res.t.given /\ Len(res.tout) > 1 => res.tout[Len(res.tout)] = res.t.a[Len(res.t.a)]
        /\ \A k \in 2..(Len(res.tout) - 1) :
              RSub(res.tout[k + 1], res.tout[k]) = RSub(res.tout[2], res.tout[1])
        /\ Aligned => SpacedBy(res.tout, GivenDt.v)

\* t = [0, 3/2] with dt = 1: the grid returned is [0, 3/2]
Misaligned ==
    /\ DlsimDone
    /\ res.t = Given(<<RZ, Q(3, 2)>>) /\ GivenDt = DtNum(R1)
    /\ res.tout = <<RZ, Q(3, 2)>>

(***************************************************************************)
(* Assignment to the attributes of a StateSpace system                     *)
(* (specification SpecSet)                                                 *)
(***************************************************************************)
\* the StateSpace systems assigned to: one and two states, continuous and
\* discrete
SetSystems ==
    {Construct(lti, a, DtAbsent).obj : a \in {SSSys, SS2Sys}}
        \cup {Construct(dlti, a, DtNum(R1)).obj : a \in {SSSys, SS2Sys}}

\* the matrices assigned: shapes 1 x 1, 1 x 2, 2 x 1 and 2 x 2
SetMats ==
    {<<<<RZ>>>>, <<<<R1>>>>, <<<<R1, RZ>>>>, <<<<R1>>, <<RZ>>>>, Eye(2), Zeros2(2, 2)}

InitSet == heap \in {<<o>> : o \in SetSystems} /\ res = Blank /\ nset = 0

\* the record of an assignment to an attribute of heap[i]
Assigned(i, name, o) ==
    /\ nset < MaxSets + 1
    /\ nset' = nset + 1
    /\ heap' = [heap EXCEPT ![i] = o]
    /\ res' = [Blank EXCEPT !.op = name, !.src = i, !.status = "ok", !.out = i]

\* heap[i].A = M
AssignA(i, M) == Assigned(i, "set_A", set_A(heap[i], M))

\* heap[i].B = M
AssignB(i, M) == Assigned(i, "set_B", set_B(heap[i], M))

\* heap[i].C = M
AssignC(i, M) == Assigned(i, "set_C", set_C(heap[i], M))

\* heap[i].D = M
AssignD(i, M) == Assigned(i, "set_D", set_D(heap[i], M))

\* heap[i].inputs = n: inputs is an instance attribute set in __init__
AssignInputs(i, n) == Assigned(i, "set_inputs", [heap[i] EXCEPT !.inputs = n])

\* heap[i].outputs = n
AssignOutputs(i, n) == Assigned(i, "set_outputs", [heap[i] EXCEPT !.outputs = n])

NextSet ==
    \/ \E i \in 1..Len(heap), M \in SetMats : AssignA(i, M)
    \/ \E i \in 1..Len(heap), M \in SetMats : AssignB(i, M)
    \/ \E i \in 1..Len(heap), M \in SetMats : AssignC(i, M)
    \/ \E i \in 1..Len(heap), M \in SetMats : AssignD(i, M)
    \/ \E i \in 1..Len(heap), n \in 1..2 : AssignInputs(i, n)
    \/ \E i \in 1..Len(heap), n \in 1..2 : AssignOutputs(i, n)

SpecSet == InitSet /\ [][NextSet]_vars

\* A square, B with the rows of A, C with the columns of A, D of shape
\* (outputs, inputs), inputs the columns of B, outputs the rows of C
Shaped(o) ==
    /\ NRows(o.A) = NCols(o.A)
    /\ NRows(o.B) = NRows(o.A)
    /\ NCols(o.C) = NCols(o.A)
    /\ NRows(o.D) = o.outputs /\ NCols(o.D) = o.inputs
    /\ o.inputs = NCols(o.B)
    /\ o.outputs = NRows(o.C)

\* C27: after construction and after any sequence of assignments to A, B,
\* C, D (and to inputs, outputs) every StateSpace system has A square, B
\* with as many rows as A, C with as many columns as A, D of shape
\* (outputs, inputs), inputs the column count of B and outputs the row
\* count of C.
ClaimC27 ==
    \A i \in 1..Len(heap) : heap[i].rep = "StateSpace" => Shaped(heap[i])

\* what holds: the systems are shaped as constructed
ShapedAsConstructed == nset = 0 => ClaimC27

\* what holds: an assignment to B sets inputs, an assignment to C sets
\* outputs, and an assignment checks nothing
CountsFollow ==
    [][/\ res'.op = "set_B" => heap'[1].inputs = NCols(heap'[1].B)
       /\ res'.op = "set_C" => heap'[1].outputs = NRows(heap'[1].C)
       /\ res'.op \in {"set_A", "set_B", "set_C", "set_D"} => res'.status = "ok"]_vars

\* A = [[1, 0], [0, 1]] assigned to the system of one state: B, C keep
\* one row and one column
Misshaped ==
    /\ res.op = "set_A" /\ nset = 1
    /\ heap[1].A = Eye(2) /\ heap[1].B = <<<<R1>>>> /\ heap[1].C = <<<<R1>>>>
    /\ heap[1].inputs = 1 /\ heap[1].outputs = 1

\* inputs = 2 assigned to the system of one input
CountAssigned ==
    /\ res.op = "set_inputs" /\ nset = 1
    /\ heap[1].inputs = 2 /\ NCols(heap[1].B) = 1

(***************************************************************************)
(* One call on a system: simulation, frequency response, conversion or     *)
(* operator (specification SpecUse)                                        *)
(***************************************************************************)
UseSystems ==
    {Construct(dlti, a, DtNum(R1)).obj : a \in SimArgs}
        \cup {Construct(lti, a, DtAbsent).obj : a \in {TFSys, SSSys}}

UseU1 == {ArrArg(<<R1, RZ>>, 1), ArrArg(<<R1, RZ, R1>>, 1)}

UseU2 == {ArrArg(<<<<R1, RZ>>, <<RZ, R1>>>>, 2)}

UseT == {NoneArg, Given(<<RZ, R1>>)}

UseX0 == {NoneArg, Given(<<R1>>)}

UseW == {NoneArg, Given(<<RZ>>), Given(<<RZ, RI(2)>>)}

\* the other operand: the system itself, or an array
UseOperands == {1} \cup ArrayOperands

InitUse == heap \in {<<o>> : o \in UseSystems} /\ res = Blank /\ nset = 0

Dbode(sa, w, n) ==
    Simulated([Blank EXCEPT !.op = "dbode", !.sa = sa, !.win = w, !.n = n],
              dbode(sa, heap, w, n))

NextUse ==
    \/ \E u \in UseU1, t \in UseT, x0 \in UseX0 : Dlsim(ObjSys(1), u, t, x0)
    \/ \E u \in UseU2, t \in UseT, x0 \in UseX0 : Dlsim(ObjSys(1), u, t, x0)
    \/ \E x0 \in UseX0, t \in UseT, n \in 2..3 : Dimpulse(ObjSys(1), x0, t, n)
    \/ \E x0 \in UseX0, t \in UseT, n \in 2..3 : Dstep(ObjSys(1), x0, t, n)
    \/ \E w \in UseW, n \in 1..2, whole \in BOOLEAN : Dfreqresp(ObjSys(1), w, n, whole)
    \/ \E sa \in SysForms, w \in UseW, n \in 1..2 : Dbode(sa, w, n)
    \/ \E rep \in Reps : res = Blank /\ Convert(1, rep)
    \/ \E n \in UseOperands : Times(1, n)
    \/ \E n \in UseOperands : Add(1, n)
    \/ \E n \in UseOperands : Sub(1, n)
    \/ \E n \in ArrayOperands : RAddOp(1, n)
    \/ \E n \in ArrayOperands : RSubOp(1, n)
    \/ Neg(1)
    \/ \E n \in UseOperands : Div(1, n)

SpecUse == InitUse /\ [][NextUse]_vars

\* the routines that take a system and return arrays
Routines == SimOps \cup {"dbode"}

\* the calls that return a system
Makers == {"to", "mul", "add", "sub", "radd", "rsub", "neg", "div"}

WitnessC28Copy ==
    /\ res.op = "to" /\ res.rep = "TransferFunction" /\ res.status = "ok"
    /\ heap[1].rep = "TransferFunction"
    /\ Len(heap) = 2 /\ res.out = 2 /\ heap[2] = heap[1]

\* dbode answered and the heap holds the system only
WitnessC28Bode ==
    /\ res.op = "dbode" /\ res.status = "ok" /\ res.nret = 3
    /\ res.sa.k = "obj" /\ Len(heap) = 1 /\ Len(res.w) = 2

(***************************************************************************)
(* TransferFunction._z_to_zinv on coefficient sequences                    *)
(* (specification SpecPad)                                                 *)
(***************************************************************************)
\* coefficient sequences of 1 to MaxN - 1 entries
PadSeqs == UNION {[1..n -> {RZ, R1, RI(2)}] : n \in 1..(MaxN - 1)}

InitPad == heap = <<>> /\ res = Blank /\ nset = 0

\* num, den = TransferFunction._z_to_zinv(num, den): the arguments are
\* kept in res.system, the results in res.w (num) and res.h (den)
ZToZinv(num, den) ==
    /\ res = Blank
    /\ res' = [Blank EXCEPT !.op = "_z_to_zinv",
                            !.system = <<ArrArg(num, 1), ArrArg(den, 1)>>,
                            !.status = "ok", !.nret = 2,
                            !.w = _z_to_zinv(num, den).num,
                            !.h = _z_to_zinv(num, den).den]
    /\ UNCHANGED <<heap, nset>>

NextPad == \E num \in PadSeqs, den \in PadSeqs : ZToZinv(num, den)

SpecPad == InitPad /\ [][NextPad]_vars

\* the sequence p is the sequence c behind Len(p) - Len(c) zeros
ZerosThen(p, c) ==
    /\ Len(p) >= Len(c)
    /\ \A k \in 1..(Len(p) - Len(c)) : p[k] = RZ
    /\ \A k \in 1..Len(c) : p[Len(p) - Len(c) + k] = c[k]

PadNum == res.system[1].a

PadDen == res.system[2].a

\* C29: _z_to_zinv pads the shorter of num and den with zeros on the left
\* so that both have max(len(num), len(den)) entries; the longer one is
\* unchanged, the coefficients of the shorter one stay right-aligned in
\* their order, and sequences of equal length are returned unchanged.
ClaimC29 ==
    res.op = "_z_to_zinv" =>
        /\ Len(res.w) = Len(res.h)
        /\ Len(res.w) = IF Len(PadNum) > Len(PadDen) THEN Len(PadNum) ELSE Len(PadDen)
        /\ ZerosThen(res.w, PadNum) /\ ZerosThen(res.h, PadDen)
        /\ Len(PadNum) >= Len(PadDen) => res.w = PadNum
        /\ Len(PadDen) >= Len(PadNum) => res.h = PadDen

\* num = [1, 2] and den = [1, 0, 2] gave num = [0, 1, 2], den unchanged
WitnessC29 ==
    /\ res.op = "_z_to_zinv"
    /\ PadNum = <<R1, RI(2)>> /\ PadDen = <<R1, RZ, RI(2)>>
    /\ res.w = <<RZ, R1, RI(2)>> /\ res.h = <<R1, RZ, RI(2)>>

\* num = [1, 2, 0] and den = [2] gave den = [0, 0, 2], num unchanged
WitnessC29Den ==
    /\ res.op = "_z_to_zinv"
    /\ PadNum = <<R1, RI(2), RZ>> /\ PadDen = <<RI(2)>>
    /\ res.w = <<R1, RI(2), RZ>> /\ res.h = <<RZ, RZ, RI(2)>>

\* equal lengths: both returned as given
WitnessC29Equal ==
    /\ res.op = "_z_to_zinv"
    /\ PadNum = <<R1, RI(2)>> /\ PadDen = <<RI(2), R1>>
    /\ res.w = PadNum /\ res.h = PadDen

(***************************************************************************)
(* Resuming a simulation (specification SpecSim)                           *)
(***************************************************************************)
\* dlsim returned for a system in StateSpace form with t left out
ResumeCase == DlsimDone /\ StateSpaceForm /\ ~res.t.given /\ res.nret = 3

\* the samples from..to of the input of the last call, as it was given
InputPart(from, to) == ArrArg(SubSeq(res.u.a, from, to), res.u.nd)

\* dlsim on the input suffix u[k:] from the state x[k] of the full run
\* (k counted from 0)
Resumed(k) ==
    dlsim(res.sa, heap, InputPart(k + 1, Len(res.u.a)), NoneArg, Given(res.xout[k + 1]))

\* dlsim on the input prefix u[0..k] from the x0 of the full run
Stopped(k) == dlsim(res.sa, heap, InputPart(1, k + 1), NoneArg, res.x0)

\* the run r returned the rows from..to of the states and outputs of the
\* full run
RowsOfFull(r, from, to) ==
    /\ r.status = "ok"
    /\ r.xout = SubSeq(res.xout, from, to)
    /\ r.yout = SubSeq(res.yout, from, to)

\* C30: for a discrete StateSpace system, an input u of N samples with t
\* omitted and any 0 <= k < N, dlsim from the state x[k] of the full run on
\* u[k:] returns x[k:] and y[k:] of the full run; the first k+1 outputs of
\* the full run are those of the run on u[0..k] from the same x0.
ClaimC30 ==
    ResumeCase =>
        \A k \in 0..(Len(res.u.a) - 1) :
            /\ RowsOfFull(Resumed(k), k + 1, Len(res.u.a))
            /\ RowsOfFull(Stopped(k), 1, k + 1)

\* a full run of MaxN samples from a nonzero state whose state moved:
\* resumed in the middle, on an input that is not constant
WitnessC30 ==
    /\ ResumeCase
    /\ Len(res.u.a) = MaxN
    /\ res.x0.given /\ \E i \in 1..Len(res.x0.a) : res.x0.a[i] # RZ
    /\ res.xout[3] # res.xout[2] /\ res.xout[2] # res.xout[1]
    /\ res.u.a[2] # res.u.a[3]
    /\ RowsOfFull(Resumed(2), 3, MaxN)

\* the same for an input of two channels
WitnessC30Wide ==
    /\ ResumeCase
    /\ res.u.nd = 2 /\ Len(res.u.a) = 2
    /\ res.xout[2] # res.xout[1]
    /\ RowsOfFull(Resumed(1), 2, 2)

====
